---- MODULE Spec2Model ----
(***************************************************************************)
(* drillbit: the local-port allocator (ports.go), the shared SSH           *)
(* connection pool (sshPool, tunnel.go) and the tunnel manager with the    *)
(* bubbletea model that drives it (TunnelManager, tunnel.go; Model.Update, *)
(* ui.go).                                                                 *)
(***************************************************************************)
EXTENDS Integers, Sequences, FiniteSets, TLC

VARIABLES
    \* ---- AssignPorts (ports.go) ----
    entries,    \* the []Entry slice handed to AssignPorts
    used,       \* the used map of AssignPorts: the ports already given out
    ppc,        \* position in AssignPorts: "sort", "assign", "done", "off"
    pidx,       \* the loop index i of AssignPorts (1-based)
    \* ---- sshPool (tunnel.go) ----
    conns,      \* sshPool.conns: host -> pooledConn [client, refs] or NoConn
    cstate,     \* each dialed ssh.Client: "none", "open" or "closed" (terminated)
    deadCh,     \* each dialed client's dead channel: TRUE once closed
    qpc,        \* each pool caller's position: "idle", "dial", "publish", "holding"
    qhost,      \* the host a caller acquires / holds
    qclient,    \* the client a caller dialed (in Acquire) or was handed (holding)
    qerr,       \* TRUE when the caller's last Acquire returned an error
    deadRet,    \* the last call of Dead: its host, the channel returned (the client
                \* whose dead channel it is, 0 for a channel made by the call) and
                \* whether that channel was closed when Dead returned
    closeAlls,  \* the number of CloseAll calls that have returned
    \* ---- TunnelManager (tunnel.go) and the Model that drives it (ui.go) ----
    tunnels,    \* TunnelManager.tunnels: key -> the registered Tunnel, 0 if none
    ckey,       \* each Connect command's entry key; the Tunnel it builds has its id
    cpc,        \* each Connect command's position: "none", "dial", "resolve",
                \* "listen", "register", then "ok" or an error returned, then
                \* "okSeen" / "errSeen" once Update has handled the message
    client,     \* Tunnel.client of each Connect: "none", "open", "closed"
    listener,   \* Tunnel.listener of each Connect: "none", "open", "closed"
    loop,       \* each tunnel's accept loop: "none", "accept", "dial", "exited"
    mpc,        \* position of the MonitorTunnel command started for each Connect
    mtun,       \* the Tunnel a monitor read from the registry when it started
    mgone,      \* who had removed the key when a monitor's re-check found it gone
    mdel,       \* the Tunnel a monitor's re-check deleted from the registry
    dpc,        \* each Disconnect command's position
    dkey,       \* each Disconnect command's entry key
    dtun,       \* the Tunnel a Disconnect removed from the registry, 0 if none
    apc,        \* DisconnectAll: "none", "snapshot", "closing", "returned"
    asnap,      \* the snapshot DisconnectAll took of the registry (its Tunnels)
    gpc,        \* DisconnectAll's closeTunnel goroutine of each Tunnel
    status,     \* Entry.Status of each entry of the Model
    mode,       \* Model.mode: "normal" or "quitting"
    remover,    \* per key: who last removed it from the registry
    refsAt,     \* per Connect: the host's pool reference count when it registered
    \* ---- the accept loop's local connection and forward (tunnel.go) ----
    accepted,   \* per tunnel: the local connection its loop accepted last:
                \* "none", "open", "closed" (by the loop) or "relayed" (given
                \* to forward)
    fowner,     \* the tunnel whose loop started the forward call tracked, 0 if none
    fpc,        \* that forward call: "none", "wait" (on errc), "closing" (its
                \* deferred remote.Close() has run) or "returned" (its
                \* deferred local.Close() has run too)
    errc,       \* the number of results waiting in forward's errc channel
    toRemote,   \* io.Copy(remote, local): bytes from the client to the remote end
    toLocal,    \* io.Copy(local, remote): bytes from the remote end to the client
    \* ---- Model.entries and IsAlive ----
    mEntries,   \* Model.entries: the entry list the discoverMsg handler keeps
    aliveRet,   \* the last call of IsAlive: its key and the value returned
    \* ---- the two mutexes and the calls that take them ----
    mu,         \* TunnelManager.mu: "free" or the task holding it
    pmu,        \* sshPool.mu: "free" or the task holding it
    tpc         \* each task's position in the function it is running

portVars == <<entries, used, ppc, pidx>>
poolVars == <<conns, cstate, deadCh, qpc, qhost, qclient, qerr, deadRet, closeAlls>>
connVars == <<ckey, cpc, client, listener, loop>>
monVars == <<mpc, mtun, mgone, mdel>>
discVars == <<dpc, dkey, dtun>>
allVars == <<apc, asnap, gpc>>
uiVars == <<status, mode>>
mgrVars == <<tunnels, connVars, monVars, discVars, allVars, uiVars, remover, refsAt>>

fwdVars == <<accepted, fowner, fpc, errc, toRemote, toLocal>>
lockVars == <<mu, pmu, tpc>>
extVars == <<fwdVars, mEntries, aliveRet, lockVars>>

vars == <<portVars, poolVars, mgrVars, extVars>>

----------------------------------------------------------------------------
(* Strings are sequences of byte values; integers keep their Go width.     *)

RECURSIVE Xor8(_, _, _)
\* bitwise exclusive or of the n low bits of a and b
Xor8(a, b, n) ==
    IF n = 0 THEN 0
    ELSE (((a % 2) + (b % 2)) % 2) + 2 * Xor8(a \div 2, b \div 2, n - 1)

\* ports.go: const block
portRangeMin == 10000
portRangeMax == 65535
portRange == portRangeMax - portRangeMin + 1

Uint16Mod == 65536

\* hash/fnv: offset32 = 2166136261 = 0x811C9DC5, as two 16-bit limbs <<hi, lo>>
fnvOffsetHi == 33052
fnvOffsetLo == 40389
\* hash/fnv: prime32 = 16777619 = 2^24 + 403
fnvPrimeLow == 403

\* One round of FNV-1a on a 32-bit state kept as <<hi, lo>>:
\* h = (h XOR byte) * prime32 mod 2^32.
FnvStep(h, byte) ==
    LET lo1  == (h[2] - (h[2] % 256)) + Xor8(h[2] % 256, byte, 8)
        p    == lo1 * fnvPrimeLow
        lo2  == p % Uint16Mod
        hi2  == ((h[1] * fnvPrimeLow) + (p \div Uint16Mod) + ((lo1 % 256) * 256)) % Uint16Mod
    IN  <<hi2, lo2>>

RECURSIVE FnvFrom(_, _, _)
FnvFrom(h, s, i) ==
    IF i > Len(s) THEN h ELSE FnvFrom(FnvStep(h, s[i]), s, i + 1)

\* fnv.New32a() over the bytes of s, Sum32() as <<hi, lo>>
Fnv32a(s) == FnvFrom(<<fnvOffsetHi, fnvOffsetLo>>, s, 1)

Colon == 58

\* tunnelKey / the sort key of AssignPorts: Host + ":" + Tenant
KeyString(host, tenant) == host \o <<Colon>> \o tenant

\* hashPort: uint16(portRangeMin + int(h.Sum32()) % portRange); int is 64 bits
\* on the platforms the program is built for, so the remainder is >= 0.
hashPort(host, tenant) ==
    LET h == Fnv32a(KeyString(host, tenant))
        r == ((h[1] * (Uint16Mod % portRange)) + h[2]) % portRange
    IN  (portRangeMin + r) % Uint16Mod

RECURSIVE StrLessFrom(_, _, _)
\* Go's < on strings: bytewise lexicographic order
StrLessFrom(a, b, i) ==
    IF i > Len(b) THEN FALSE
    ELSE IF i > Len(a) THEN TRUE
    ELSE IF a[i] # b[i] THEN a[i] < b[i]
    ELSE StrLessFrom(a, b, i + 1)

StrLess(a, b) == StrLessFrom(a, b, 1)

EntryKey(e) == KeyString(e.Host, e.Tenant)

RECURSIVE SortByKey(_)
\* sort.Slice(entries, ki < kj): the entries in ascending key order
SortByKey(s) ==
    IF Len(s) = 0 THEN <<>>
    ELSE LET m == CHOOSE i \in 1..Len(s) :
                      \A j \in 1..Len(s) : ~StrLess(EntryKey(s[j]), EntryKey(s[i]))
             rest == [j \in 1..(Len(s) - 1) |-> IF j < m THEN s[j] ELSE s[j + 1]]
         IN  <<s[m]>> \o SortByKey(rest)

\* port++ on a uint16, then "if port > portRangeMax { port = portRangeMin }"
NextProbe(port) ==
    LET inc == (port + 1) % Uint16Mod
    IN  IF inc > portRangeMax THEN portRangeMin ELSE inc

RECURSIVE Probe(_, _)
\* for used[port] { port++ ... }
Probe(port, u) == IF port \in u THEN Probe(NextProbe(port), u) ELSE port

----------------------------------------------------------------------------
(* Entry identities the allocator is run on.                               *)

HostDb1 == <<100, 98, 49>>                     \* "db1"

TenantPool ==
    { <<97, 118, 106, 102>>,                   \* "avjf": hashPort 65535
      <<103, 110, 120, 114>>,                  \* "gnxr": hashPort 65535
      <<109, 112, 107>>,                       \* "mpk":  hashPort 65534
      <<97, 101, 99>>,                         \* "aec":  hashPort 45431
      <<99, 97, 97>>,                          \* "caa":  hashPort 45431
      <<97>> }                                 \* "a":    hashPort 57903

MaxEntries == 3

NewEntry(t) == [Host |-> HostDb1, Tenant |-> t, LocalPort |-> 0]

RECURSIVE SeqsOver(_, _)
\* the sequences of at most n distinct tenants of T, as entry lists
SeqsOver(T, n) ==
    IF n = 0 \/ T = {} THEN {<<>>}
    ELSE {<<>>} \cup UNION { { <<NewEntry(t)>> \o s : s \in SeqsOver(T \ {t}, n - 1) } : t \in T }

PortsIdle ==
    /\ entries = <<>>
    /\ used = {}
    /\ ppc = "off"
    /\ pidx = 0

\* AssignPorts without its sort.Slice: the entries stay in the order given
SortEntriesUnsorted ==
    /\ ppc = "sort"
    /\ entries' = entries
    /\ used' = {}
    /\ pidx' = 1
    /\ ppc' = "assign"
    /\ UNCHANGED <<poolVars, mgrVars, extVars>>

\* AssignPorts, lines 25-31: sort the slice, make the used map
SortEntries ==
    /\ ppc = "sort"
    /\ entries' = SortByKey(entries)
    /\ used' = {}
    /\ pidx' = 1
    /\ ppc' = "assign"
    /\ UNCHANGED <<poolVars, mgrVars, extVars>>

\* the loop body without its "for used[port]" probe: the hashed port is taken as is
AssignOneNoProbe ==
    /\ ppc = "assign"
    /\ pidx <= Len(entries)
    /\ LET port == hashPort(entries[pidx].Host, entries[pidx].Tenant)
       IN  /\ used' = used \cup {port}
           /\ entries' = [entries EXCEPT ![pidx].LocalPort = port]
    /\ pidx' = pidx + 1
    /\ ppc' = "assign"
    /\ UNCHANGED <<poolVars, mgrVars, extVars>>

\* AssignPorts, lines 32-42: one iteration of the loop over the entries
AssignOne ==
    /\ ppc = "assign"
    /\ pidx <= Len(entries)
    /\ LET port == Probe(hashPort(entries[pidx].Host, entries[pidx].Tenant), used)
       IN  /\ used' = used \cup {port}
           /\ entries' = [entries EXCEPT ![pidx].LocalPort = port]
    /\ pidx' = pidx + 1
    /\ ppc' = "assign"
    /\ UNCHANGED <<poolVars, mgrVars, extVars>>

\* AssignPorts returns when the loop is over
AssignDone ==
    /\ ppc = "assign"
    /\ pidx > Len(entries)
    /\ ppc' = "done"
    /\ UNCHANGED <<entries, used, pidx>>
    /\ UNCHANGED <<poolVars, mgrVars, extVars>>

RECURSIVE AssignFrom(_, _, _)
\* AssignPorts, lines 33-42: the loop from entry i on, with the ports in u taken
AssignFrom(s, i, u) ==
    IF i > Len(s) THEN s
    ELSE LET port == Probe(hashPort(s[i].Host, s[i].Tenant), u)
         IN  AssignFrom([s EXCEPT ![i].LocalPort = port], i + 1, u \cup {port})

\* AssignPorts run to its end on the slice s
AssignPorts(s) == AssignFrom(SortByKey(s), 1, {})

\* the slice s presented in every order
Orders(s) == { [i \in 1..Len(s) |-> s[p[i]]] : p \in Permutations(1..Len(s)) }

----------------------------------------------------------------------------
(* sshPool: one shared, reference-counted SSH connection per host.         *)

PoolHosts == {"db1", "db2"}

NCallers == 3
MaxDials == 3

Callers == 1..NCallers
Clients == 1..MaxDials

NoConn == [client |-> 0, refs |-> 0]

\* no call of Dead yet
NoDead == [host |-> "none", ch |-> 0, fired |-> FALSE]

MaxCloseAll == 1

\* "select { case <-pc.dead: ... default: ... }": the entry's channel is closed
EntryDead(h) == deadCh[conns[h].client]

HasEntry(h) == conns[h] # NoConn

\* the next client dialSSH will hand out
FreshClient == CHOOSE id \in Clients : cstate[id] = "none" /\ \A j \in Clients : cstate[j] = "none" => id <= j

PoolIdle ==
    /\ conns = [h \in PoolHosts |-> NoConn]
    /\ cstate = [id \in Clients |-> "none"]
    /\ deadCh = [id \in Clients |-> FALSE]
    /\ qpc = [c \in Callers |-> "idle"]
    /\ qhost = [c \in Callers |-> "db1"]
    /\ qclient = [c \in Callers |-> 0]
    /\ qerr = [c \in Callers |-> FALSE]
    /\ deadRet = NoDead
    /\ closeAlls = 0

\* the entry Release leaves behind: refs--, and at refs <= 0 the entry is deleted
ReleasedEntry(e) == IF e.refs - 1 <= 0 THEN NoConn ELSE [e EXCEPT !.refs = e.refs - 1]

\* the first critical section without its select on pc.dead: an entry is
\* shared whether its connection is dead or not
AcquireCheckIgnoresDead(c, h) ==
    /\ qpc[c] = "idle"
    /\ qhost' = [qhost EXCEPT ![c] = h]
    /\ qerr' = [qerr EXCEPT ![c] = FALSE]
    /\ IF HasEntry(h)
       THEN /\ conns' = [conns EXCEPT ![h].refs = conns[h].refs + 1]
            /\ qclient' = [qclient EXCEPT ![c] = conns[h].client]
            /\ qpc' = [qpc EXCEPT ![c] = "holding"]
       ELSE /\ conns' = [conns EXCEPT ![h] = NoConn]
            /\ qclient' = [qclient EXCEPT ![c] = 0]
            /\ qpc' = [qpc EXCEPT ![c] = "dial"]
    /\ UNCHANGED <<cstate, deadCh, deadRet, closeAlls>>
    /\ UNCHANGED <<portVars, mgrVars, extVars>>

\* Acquire, lines 292-304: the first critical section
AcquireCheck(c, h) ==
    /\ qpc[c] = "idle"
    /\ qhost' = [qhost EXCEPT ![c] = h]
    /\ qerr' = [qerr EXCEPT ![c] = FALSE]
    /\ IF HasEntry(h) /\ ~EntryDead(h)
       THEN /\ conns' = [conns EXCEPT ![h].refs = conns[h].refs + 1]
            /\ qclient' = [qclient EXCEPT ![c] = conns[h].client]
            /\ qpc' = [qpc EXCEPT ![c] = "holding"]
       ELSE /\ conns' = [conns EXCEPT ![h] = NoConn]
            /\ qclient' = [qclient EXCEPT ![c] = 0]
            /\ qpc' = [qpc EXCEPT ![c] = "dial"]
    /\ UNCHANGED <<cstate, deadCh, deadRet, closeAlls>>
    /\ UNCHANGED <<portVars, mgrVars, extVars>>

\* Acquire, lines 307-317: dialSSH succeeds; the watcher and keepAlive start
AcquireDialOk(c) ==
    /\ qpc[c] = "dial"
    /\ \E id \in Clients : cstate[id] = "none"
    /\ cstate' = [cstate EXCEPT ![FreshClient] = "open"]
    /\ qclient' = [qclient EXCEPT ![c] = FreshClient]
    /\ qpc' = [qpc EXCEPT ![c] = "publish"]
    /\ UNCHANGED <<conns, deadCh, qhost, qerr, deadRet, closeAlls>>
    /\ UNCHANGED <<portVars, mgrVars, extVars>>

\* an Acquire that puts its entry in the map before it looks at the dial's error
AcquireDialFailPublishes(c) ==
    /\ qpc[c] = "dial"
    /\ qerr' = [qerr EXCEPT ![c] = TRUE]
    /\ qpc' = [qpc EXCEPT ![c] = "idle"]
    /\ conns' = [conns EXCEPT ![qhost[c]] = [client |-> 0, refs |-> 1]]
    /\ UNCHANGED <<cstate, deadCh, qhost, qclient, deadRet, closeAlls>>
    /\ UNCHANGED <<portVars, mgrVars, extVars>>

\* Acquire, lines 307-310: dialSSH fails, Acquire returns the error
AcquireDialFail(c) ==
    /\ qpc[c] = "dial"
    /\ qerr' = [qerr EXCEPT ![c] = TRUE]
    /\ qpc' = [qpc EXCEPT ![c] = "idle"]
    /\ UNCHANGED <<conns, cstate, deadCh, qhost, qclient, deadRet, closeAlls>>
    /\ UNCHANGED <<portVars, mgrVars, extVars>>

\* the second critical section without client.Close() on the losing connection
AcquirePublishLeak(c) ==
    /\ qpc[c] = "publish"
    /\ LET h == qhost[c]
       IN  IF HasEntry(h) /\ ~EntryDead(h)
           THEN /\ conns' = [conns EXCEPT ![h].refs = conns[h].refs + 1]
                /\ qclient' = [qclient EXCEPT ![c] = conns[h].client]
                /\ UNCHANGED cstate
           ELSE /\ conns' = [conns EXCEPT ![h] = [client |-> qclient[c], refs |-> 1]]
                /\ UNCHANGED <<cstate, qclient>>
    /\ qpc' = [qpc EXCEPT ![c] = "holding"]
    /\ UNCHANGED <<deadCh, qhost, qerr, deadRet, closeAlls>>
    /\ UNCHANGED <<portVars, mgrVars, extVars>>

\* Acquire, lines 319-336: the second critical section
AcquirePublish(c) ==
    /\ qpc[c] = "publish"
    /\ LET h == qhost[c]
       IN  IF HasEntry(h) /\ ~EntryDead(h)
           THEN /\ conns' = [conns EXCEPT ![h].refs = conns[h].refs + 1]
                /\ cstate' = [cstate EXCEPT ![qclient[c]] = "closed"]
                /\ qclient' = [qclient EXCEPT ![c] = conns[h].client]
           ELSE /\ conns' = [conns EXCEPT ![h] = [client |-> qclient[c], refs |-> 1]]
                /\ UNCHANGED <<cstate, qclient>>
    /\ qpc' = [qpc EXCEPT ![c] = "holding"]
    /\ UNCHANGED <<deadCh, qhost, qerr, deadRet, closeAlls>>
    /\ UNCHANGED <<portVars, mgrVars, extVars>>

\* a Release that closes and removes the entry at "pc.refs <= 1"
ReleaseClosesEarly(c) ==
    /\ qpc[c] = "holding"
    /\ LET h == qhost[c]
       IN  IF ~HasEntry(h)
           THEN UNCHANGED <<conns, cstate>>
           ELSE /\ conns' = [conns EXCEPT ![h] = IF conns[h].refs - 1 <= 1 THEN NoConn
                                                 ELSE [conns[h] EXCEPT !.refs = @ - 1]]
                /\ cstate' = IF conns[h].refs - 1 <= 1
                             THEN [cstate EXCEPT ![conns[h].client] = "closed"]
                             ELSE cstate
    /\ qpc' = [qpc EXCEPT ![c] = "idle"]
    /\ qclient' = [qclient EXCEPT ![c] = 0]
    /\ UNCHANGED <<deadCh, qhost, qerr, deadRet, closeAlls>>
    /\ UNCHANGED <<portVars, mgrVars, extVars>>

\* Release, lines 341-353, called by a caller that holds a client of the host
Release(c) ==
    /\ qpc[c] = "holding"
    /\ LET h == qhost[c]
       IN  IF ~HasEntry(h)
           THEN UNCHANGED <<conns, cstate>>
           ELSE /\ conns' = [conns EXCEPT ![h] = ReleasedEntry(conns[h])]
                /\ cstate' = IF ReleasedEntry(conns[h]) = NoConn
                             THEN [cstate EXCEPT ![conns[h].client] = "closed"]
                             ELSE cstate
    /\ qpc' = [qpc EXCEPT ![c] = "idle"]
    /\ qclient' = [qclient EXCEPT ![c] = 0]
    /\ UNCHANGED <<deadCh, qhost, qerr, deadRet, closeAlls>>
    /\ UNCHANGED <<portVars, mgrVars, extVars>>

\* the network ends a connection: the client's Wait is about to return
ConnDies(id) ==
    /\ cstate[id] = "open"
    /\ cstate' = [cstate EXCEPT ![id] = "closed"]
    /\ UNCHANGED <<conns, deadCh, qpc, qhost, qclient, qerr, deadRet, closeAlls>>
    /\ UNCHANGED <<portVars, mgrVars, extVars>>

\* a watcher that closes dead without waiting for client.Wait() to return
WatcherFiresEarly(id) ==
    /\ cstate[id] \in {"open", "closed"}
    /\ ~deadCh[id]
    /\ deadCh' = [deadCh EXCEPT ![id] = TRUE]
    /\ UNCHANGED <<conns, cstate, qpc, qhost, qclient, qerr, deadRet, closeAlls>>
    /\ UNCHANGED <<portVars, mgrVars, extVars>>

\* Acquire, lines 313-316: the watcher goroutine: client.Wait(); close(dead)
Watcher(id) ==
    /\ cstate[id] = "closed"
    /\ ~deadCh[id]
    /\ deadCh' = [deadCh EXCEPT ![id] = TRUE]
    /\ UNCHANGED <<conns, cstate, qpc, qhost, qclient, qerr, deadRet, closeAlls>>
    /\ UNCHANGED <<portVars, mgrVars, extVars>>

\* a Dead that forgets close(ch) on the channel it makes
DeadNeverFires(h) ==
    /\ deadRet' = IF HasEntry(h)
                  THEN [host |-> h, ch |-> conns[h].client, fired |-> deadCh[conns[h].client]]
                  ELSE [host |-> h, ch |-> 0, fired |-> FALSE]
    /\ UNCHANGED <<conns, cstate, deadCh, qpc, qhost, qclient, qerr, closeAlls>>
    /\ UNCHANGED <<portVars, mgrVars, extVars>>

\* Dead, lines 357-366
Dead(h) ==
    /\ deadRet' = IF HasEntry(h)
                  THEN [host |-> h, ch |-> conns[h].client, fired |-> deadCh[conns[h].client]]
                  ELSE [host |-> h, ch |-> 0, fired |-> TRUE]
    /\ UNCHANGED <<conns, cstate, deadCh, qpc, qhost, qclient, qerr, closeAlls>>
    /\ UNCHANGED <<portVars, mgrVars, extVars>>

\* a CloseAll that spares the connections more than one caller still holds
CloseAllSparesShared ==
    /\ closeAlls < MaxCloseAll
    /\ closeAlls' = closeAlls + 1
    /\ cstate' = [id \in Clients |->
                    IF \E h \in PoolHosts : HasEntry(h) /\ conns[h].client = id /\ conns[h].refs <= 1
                    THEN "closed" ELSE cstate[id]]
    /\ conns' = [h \in PoolHosts |-> IF conns[h].refs <= 1 THEN NoConn ELSE conns[h]]
    /\ UNCHANGED <<deadCh, qpc, qhost, qclient, qerr, deadRet>>
    /\ UNCHANGED <<portVars, mgrVars, extVars>>

\* CloseAll, lines 369-376
CloseAll ==
    /\ closeAlls < MaxCloseAll
    /\ closeAlls' = closeAlls + 1
    /\ cstate' = [id \in Clients |->
                    IF \E h \in PoolHosts : HasEntry(h) /\ conns[h].client = id
                    THEN "closed" ELSE cstate[id]]
    /\ conns' = [h \in PoolHosts |-> NoConn]
    /\ UNCHANGED <<deadCh, qpc, qhost, qclient, qerr, deadRet>>
    /\ UNCHANGED <<portVars, mgrVars, extVars>>

----------------------------------------------------------------------------
(* TunnelManager and the bubbletea Model that issues its commands.  Every  *)
(* tea.Cmd runs in a goroutine of its own; the message it returns is       *)
(* handled later by Model.Update, in any order.                            *)

KeyA == "db1:a"
KeyB == "db1:b"
Keys == {KeyA, KeyB}

\* Entry.SSHHost of an entry: both entries live on host "db1"
HostOf(k) == "db1"

MaxConnect == 2
MaxDisconnect == 2

Conn == 1..MaxConnect
Disc == 1..MaxDisconnect

\* the reference count the pool holds for a host (no entry: none)
HostRefs(h) == conns[h].refs

MgrIdle ==
    /\ tunnels = [k \in Keys |-> 0]
    /\ ckey = [c \in Conn |-> "none"]
    /\ cpc = [c \in Conn |-> "none"]
    /\ client = [c \in Conn |-> "none"]
    /\ listener = [c \in Conn |-> "none"]
    /\ loop = [c \in Conn |-> "none"]
    /\ mpc = [c \in Conn |-> "none"]
    /\ mtun = [c \in Conn |-> 0]
    /\ mgone = [c \in Conn |-> "unset"]
    /\ mdel = [c \in Conn |-> 0]
    /\ dpc = [d \in Disc |-> "none"]
    /\ dkey = [d \in Disc |-> "none"]
    /\ dtun = [d \in Disc |-> 0]
    /\ apc = "none"
    /\ asnap = {}
    /\ gpc = [c \in Conn |-> "none"]
    /\ status = [k \in Keys |-> "Ready"]
    /\ mode = "normal"
    /\ remover = [k \in Keys |-> "none"]
    /\ refsAt = [c \in Conn |-> 0]

FreeConns == {c \in Conn : cpc[c] = "none"}
FreeDiscs == {d \in Disc : dpc[d] = "none"}

\* commands are numbered in the order the Model issues them
NextConn == MaxConnect - Cardinality(FreeConns) + 1
NextDisc == MaxDisconnect - Cardinality(FreeDiscs) + 1

\* the positions of a Connect that has returned a tunnelErrorMsg not yet handled
ConnectErrors == {"errDial", "errResolve", "errListen"}

\* ---- TunnelManager.Connect, lines 48-102 ----

\* line 53: dialSSH succeeds
ConnectDialOk(c) ==
    /\ cpc[c] = "dial"
    /\ client' = [client EXCEPT ![c] = "open"]
    /\ cpc' = [cpc EXCEPT ![c] = "resolve"]
    /\ UNCHANGED <<tunnels, ckey, listener, loop, monVars, discVars, allVars, uiVars, remover, refsAt>>
    /\ UNCHANGED <<portVars, poolVars, extVars>>

\* lines 53-56: dialSSH fails, Connect returns tunnelErrorMsg
ConnectDialFail(c) ==
    /\ cpc[c] = "dial"
    /\ cpc' = [cpc EXCEPT ![c] = "errDial"]
    /\ UNCHANGED <<tunnels, ckey, client, listener, loop, monVars, discVars, allVars, uiVars, remover, refsAt>>
    /\ UNCHANGED <<portVars, poolVars, extVars>>

\* line 59: resolveContainerIP succeeds over the open connection
ConnectResolveOk(c) ==
    /\ cpc[c] = "resolve"
    /\ client[c] = "open"
    /\ cpc' = [cpc EXCEPT ![c] = "listen"]
    /\ UNCHANGED <<tunnels, ckey, client, listener, loop, monVars, discVars, allVars, uiVars, remover, refsAt>>
    /\ UNCHANGED <<portVars, poolVars, extVars>>

\* lines 59-63: resolveContainerIP fails: client.Close(), tunnelErrorMsg
ConnectResolveFail(c) ==
    /\ cpc[c] = "resolve"
    /\ client' = [client EXCEPT ![c] = "closed"]
    /\ cpc' = [cpc EXCEPT ![c] = "errResolve"]
    /\ UNCHANGED <<tunnels, ckey, listener, loop, monVars, discVars, allVars, uiVars, remover, refsAt>>
    /\ UNCHANGED <<portVars, poolVars, extVars>>

\* the entry's LocalPort is bound by no listener of this process
PortFree(k) == \A o \in Conn : ~(ckey[o] = k /\ listener[o] = "open")

\* lines 66, 72-93: net.Listen succeeds; the accept loop goroutine starts
ConnectListenOk(c) ==
    /\ cpc[c] = "listen"
    /\ PortFree(ckey[c])
    /\ listener' = [listener EXCEPT ![c] = "open"]
    /\ loop' = [loop EXCEPT ![c] = "accept"]
    /\ cpc' = [cpc EXCEPT ![c] = "register"]
    /\ UNCHANGED <<tunnels, ckey, client, monVars, discVars, allVars, uiVars, remover, refsAt>>
    /\ UNCHANGED <<portVars, poolVars, extVars>>

\* net.Listen fails and the connection is left open
ConnectListenFailLeak(c) ==
    /\ cpc[c] = "listen"
    /\ cpc' = [cpc EXCEPT ![c] = "errListen"]
    /\ UNCHANGED <<tunnels, ckey, client, listener, loop, monVars, discVars, allVars, uiVars, remover, refsAt>>
    /\ UNCHANGED <<portVars, poolVars, extVars>>

\* lines 66-70: net.Listen fails (the port is in use, here or by another
\* process): client.Close(), tunnelErrorMsg
ConnectListenFail(c) ==
    /\ cpc[c] = "listen"
    /\ client' = [client EXCEPT ![c] = "closed"]
    /\ cpc' = [cpc EXCEPT ![c] = "errListen"]
    /\ UNCHANGED <<tunnels, ckey, listener, loop, monVars, discVars, allVars, uiVars, remover, refsAt>>
    /\ UNCHANGED <<portVars, poolVars, extVars>>

\* lines 95-100: tm.tunnels[key] = tun under the lock, tunnelConnectedMsg
ConnectRegister(c) ==
    /\ cpc[c] = "register"
    /\ tunnels' = [tunnels EXCEPT ![ckey[c]] = c]
    /\ remover' = [remover EXCEPT ![ckey[c]] = "none"]
    /\ refsAt' = [refsAt EXCEPT ![c] = HostRefs(HostOf(ckey[c]))]
    /\ cpc' = [cpc EXCEPT ![c] = "ok"]
    /\ UNCHANGED <<ckey, client, listener, loop, monVars, discVars, allVars, uiVars>>
    /\ UNCHANGED <<portVars, poolVars, extVars>>

\* ---- the accept loop goroutine of Connect, lines 77-93 ----

\* line 80: listener.Accept returns a local connection
AcceptLocalLoop(c) ==
    /\ loop[c] = "accept"
    /\ listener[c] = "open"
    /\ loop' = [loop EXCEPT ![c] = "dial"]
    /\ UNCHANGED <<tunnels, ckey, cpc, client, listener, monVars, discVars, allVars, uiVars, remover, refsAt>>
    /\ UNCHANGED <<portVars, poolVars>>

\* the same step where the local connection is not followed
AcceptLocal(c) ==
    /\ AcceptLocalLoop(c)
    /\ UNCHANGED extVars

\* lines 80-83 and 78: Accept fails on the closed listener; close(done)
AcceptClosed(c) ==
    /\ loop[c] = "accept"
    /\ listener[c] = "closed"
    /\ loop' = [loop EXCEPT ![c] = "exited"]
    /\ UNCHANGED <<tunnels, ckey, cpc, client, listener, monVars, discVars, allVars, uiVars, remover, refsAt>>
    /\ UNCHANGED <<portVars, poolVars, extVars>>

\* lines 84, 91: client.Dial succeeds, go forward(local, remote)
RemoteDialOkLoop(c) ==
    /\ loop[c] = "dial"
    /\ client[c] = "open"
    /\ loop' = [loop EXCEPT ![c] = "accept"]
    /\ UNCHANGED <<tunnels, ckey, cpc, client, listener, monVars, discVars, allVars, uiVars, remover, refsAt>>
    /\ UNCHANGED <<portVars, poolVars>>

\* the same step where the forward call is not followed
RemoteDialOk(c) ==
    /\ RemoteDialOkLoop(c)
    /\ UNCHANGED extVars

\* lines 84-90 and 78: client.Dial fails: local.Close(), listener.Close(),
\* close(done)
RemoteDialFailLoop(c) ==
    /\ loop[c] = "dial"
    /\ listener' = [listener EXCEPT ![c] = "closed"]
    /\ loop' = [loop EXCEPT ![c] = "exited"]
    /\ UNCHANGED <<tunnels, ckey, cpc, client, monVars, discVars, allVars, uiVars, remover, refsAt>>
    /\ UNCHANGED <<portVars, poolVars>>

\* the same step where the local connection is not followed
RemoteDialFail(c) ==
    /\ RemoteDialFailLoop(c)
    /\ UNCHANGED extVars

\* the network ends a tunnel's SSH connection: client.Wait returns from now on
ClientDies(c) ==
    /\ client[c] = "open"
    /\ client' = [client EXCEPT ![c] = "closed"]
    /\ UNCHANGED <<tunnels, ckey, cpc, listener, loop, monVars, discVars, allVars, uiVars, remover, refsAt>>
    /\ UNCHANGED <<portVars, poolVars, extVars>>

\* ---- TunnelManager.Disconnect, lines 105-120, with closeTunnel, 184-188 ----

\* a Disconnect that returns an error message for a key it does not find
DisconnectLookupRejectsAbsent(d) ==
    /\ dpc[d] = "lookup"
    /\ LET tun == tunnels[dkey[d]]
       IN  IF tun # 0
           THEN /\ tunnels' = [tunnels EXCEPT ![dkey[d]] = 0]
                /\ remover' = [remover EXCEPT ![dkey[d]] = "disconnect"]
                /\ dtun' = [dtun EXCEPT ![d] = tun]
                /\ dpc' = [dpc EXCEPT ![d] = "closeListener"]
           ELSE /\ dpc' = [dpc EXCEPT ![d] = "err"]
                /\ UNCHANGED <<tunnels, remover, dtun>>
    /\ UNCHANGED <<connVars, monVars, dkey, allVars, uiVars, refsAt>>
    /\ UNCHANGED <<portVars, poolVars, extVars>>

\* lines 108-113: look the key up and delete it under the lock
DisconnectLookup(d) ==
    /\ dpc[d] = "lookup"
    /\ LET tun == tunnels[dkey[d]]
       IN  IF tun # 0
           THEN /\ tunnels' = [tunnels EXCEPT ![dkey[d]] = 0]
                /\ remover' = [remover EXCEPT ![dkey[d]] = "disconnect"]
                /\ dtun' = [dtun EXCEPT ![d] = tun]
                /\ dpc' = [dpc EXCEPT ![d] = "closeListener"]
           ELSE /\ dpc' = [dpc EXCEPT ![d] = "ret"]
                /\ UNCHANGED <<tunnels, remover, dtun>>
    /\ UNCHANGED <<connVars, monVars, dkey, allVars, uiVars, refsAt>>
    /\ UNCHANGED <<portVars, poolVars, extVars>>

\* closeTunnel, line 185: tun.listener.Close()
DisconnectCloseListener(d) ==
    /\ dpc[d] = "closeListener"
    /\ listener' = [listener EXCEPT ![dtun[d]] = "closed"]
    /\ dpc' = [dpc EXCEPT ![d] = "closeClient"]
    /\ UNCHANGED <<tunnels, ckey, cpc, client, loop, monVars, dkey, dtun, allVars, uiVars, remover, refsAt>>
    /\ UNCHANGED <<portVars, poolVars, extVars>>

\* closeTunnel, line 186: tun.client.Close()
DisconnectCloseClient(d) ==
    /\ dpc[d] = "closeClient"
    /\ client' = [client EXCEPT ![dtun[d]] = "closed"]
    /\ dpc' = [dpc EXCEPT ![d] = "waitDone"]
    /\ UNCHANGED <<tunnels, ckey, cpc, listener, loop, monVars, dkey, dtun, allVars, uiVars, remover, refsAt>>
    /\ UNCHANGED <<portVars, poolVars, extVars>>

\* a closeTunnel that does not wait on tun.done before Disconnect returns
DisconnectWaitDoneSkipped(d) ==
    /\ dpc[d] = "waitDone"
    /\ dpc' = [dpc EXCEPT ![d] = "ret"]
    /\ UNCHANGED <<tunnels, connVars, monVars, dkey, dtun, allVars, uiVars, remover, refsAt>>
    /\ UNCHANGED <<portVars, poolVars, extVars>>

\* closeTunnel, line 187, and line 118: <-tun.done, then tunnelDisconnectedMsg
DisconnectWaitDone(d) ==
    /\ dpc[d] = "waitDone"
    /\ loop[dtun[d]] = "exited"
    /\ dpc' = [dpc EXCEPT ![d] = "ret"]
    /\ UNCHANGED <<tunnels, connVars, monVars, dkey, dtun, allVars, uiVars, remover, refsAt>>
    /\ UNCHANGED <<portVars, poolVars, extVars>>

\* ---- TunnelManager.MonitorTunnel, lines 123-151 ----

\* lines 125-130: read the Tunnel of the key; none: return nil
MonitorStart(c) ==
    /\ mpc[c] = "start"
    /\ IF tunnels[ckey[c]] = 0
       THEN /\ mpc' = [mpc EXCEPT ![c] = "nil"]
            /\ UNCHANGED mtun
       ELSE /\ mpc' = [mpc EXCEPT ![c] = "wait"]
            /\ mtun' = [mtun EXCEPT ![c] = tunnels[ckey[c]]]
    /\ UNCHANGED <<tunnels, connVars, mgone, mdel, discVars, allVars, uiVars, remover, refsAt>>
    /\ UNCHANGED <<portVars, poolVars, extVars>>

\* the re-check without "if !stillTracked { return nil }"
MonitorRecheckAlwaysReports(c) ==
    /\ mpc[c] = "wait"
    /\ client[mtun[c]] = "closed"
    /\ LET k == ckey[c]
           stillTracked == tunnels[k] # 0
       IN  /\ tunnels' = [tunnels EXCEPT ![k] = 0]
           /\ mdel' = [mdel EXCEPT ![c] = tunnels[k]]
           /\ mgone' = [mgone EXCEPT ![c] = IF stillTracked THEN "tracked" ELSE remover[k]]
           /\ remover' = [remover EXCEPT ![k] = IF stillTracked THEN "monitor" ELSE remover[k]]
           /\ mpc' = [mpc EXCEPT ![c] = "closeListener"]
    /\ UNCHANGED <<connVars, mtun, discVars, allVars, uiVars, refsAt>>
    /\ UNCHANGED <<portVars, poolVars, extVars>>

\* lines 133-143: tun.client.Wait() has returned; under the lock read
\* stillTracked and delete the key; not tracked: return nil
MonitorRecheck(c) ==
    /\ mpc[c] = "wait"
    /\ client[mtun[c]] = "closed"
    /\ LET k == ckey[c]
           stillTracked == tunnels[k] # 0
       IN  /\ tunnels' = [tunnels EXCEPT ![k] = 0]
           /\ mdel' = [mdel EXCEPT ![c] = tunnels[k]]
           /\ mgone' = [mgone EXCEPT ![c] = IF stillTracked THEN "tracked" ELSE remover[k]]
           /\ remover' = [remover EXCEPT ![k] = IF stillTracked THEN "monitor" ELSE remover[k]]
           /\ mpc' = [mpc EXCEPT ![c] = IF stillTracked THEN "closeListener" ELSE "nil"]
    /\ UNCHANGED <<connVars, mtun, discVars, allVars, uiVars, refsAt>>
    /\ UNCHANGED <<portVars, poolVars, extVars>>

\* line 146: tun.listener.Close()
MonitorCloseListener(c) ==
    /\ mpc[c] = "closeListener"
    /\ listener' = [listener EXCEPT ![mtun[c]] = "closed"]
    /\ mpc' = [mpc EXCEPT ![c] = "waitDone"]
    /\ UNCHANGED <<tunnels, ckey, cpc, client, loop, mtun, mgone, mdel, discVars, allVars, uiVars, remover, refsAt>>
    /\ UNCHANGED <<portVars, poolVars, extVars>>

\* lines 147-149: <-tun.done, return tunnelErrorMsg "SSH connection lost"
MonitorWaitDone(c) ==
    /\ mpc[c] = "waitDone"
    /\ loop[mtun[c]] = "exited"
    /\ mpc' = [mpc EXCEPT ![c] = "lost"]
    /\ UNCHANGED <<tunnels, connVars, mtun, mgone, mdel, discVars, allVars, uiVars, remover, refsAt>>
    /\ UNCHANGED <<portVars, poolVars, extVars>>

\* ---- TunnelManager.DisconnectAll, lines 162-180, with closeTunnel ----

\* lines 163-178: copy and clear the registry under the lock, start one
\* closeTunnel goroutine per copied Tunnel
AllSnapshot ==
    /\ apc = "snapshot"
    /\ asnap' = {tunnels[k] : k \in Keys} \ {0}
    /\ gpc' = [c \in Conn |-> IF \E k \in Keys : tunnels[k] = c THEN "closeListener" ELSE gpc[c]]
    /\ tunnels' = [k \in Keys |-> 0]
    /\ remover' = [k \in Keys |-> IF tunnels[k] # 0 THEN "all" ELSE remover[k]]
    /\ apc' = "closing"
    /\ UNCHANGED <<connVars, monVars, discVars, uiVars, refsAt>>
    /\ UNCHANGED <<portVars, poolVars, extVars>>

\* closeTunnel without its tun.listener.Close(): the accept loop stays in Accept
AllCloseListenerSkipped(c) ==
    /\ gpc[c] = "closeListener"
    /\ gpc' = [gpc EXCEPT ![c] = "closeClient"]
    /\ UNCHANGED <<tunnels, ckey, cpc, client, listener, loop, monVars, discVars, apc, asnap, uiVars, remover, refsAt>>
    /\ UNCHANGED <<portVars, poolVars, extVars>>

\* closeTunnel, line 185
AllCloseListener(c) ==
    /\ gpc[c] = "closeListener"
    /\ listener' = [listener EXCEPT ![c] = "closed"]
    /\ gpc' = [gpc EXCEPT ![c] = "closeClient"]
    /\ UNCHANGED <<tunnels, ckey, cpc, client, loop, monVars, discVars, apc, asnap, uiVars, remover, refsAt>>
    /\ UNCHANGED <<portVars, poolVars, extVars>>

\* closeTunnel, line 186
AllCloseClient(c) ==
    /\ gpc[c] = "closeClient"
    /\ client' = [client EXCEPT ![c] = "closed"]
    /\ gpc' = [gpc EXCEPT ![c] = "waitDone"]
    /\ UNCHANGED <<tunnels, ckey, cpc, listener, loop, monVars, discVars, apc, asnap, uiVars, remover, refsAt>>
    /\ UNCHANGED <<portVars, poolVars, extVars>>

\* closeTunnel without "<-tun.done"
AllWaitDoneSkipped(c) ==
    /\ gpc[c] = "waitDone"
    /\ gpc' = [gpc EXCEPT ![c] = "done"]
    /\ UNCHANGED <<tunnels, connVars, monVars, discVars, apc, asnap, uiVars, remover, refsAt>>
    /\ UNCHANGED <<portVars, poolVars, extVars>>

\* closeTunnel, line 187, and wg.Done
AllWaitDone(c) ==
    /\ gpc[c] = "waitDone"
    /\ loop[c] = "exited"
    /\ gpc' = [gpc EXCEPT ![c] = "done"]
    /\ UNCHANGED <<tunnels, connVars, monVars, discVars, apc, asnap, uiVars, remover, refsAt>>
    /\ UNCHANGED <<portVars, poolVars, extVars>>

\* line 179: wg.Wait() returns, and so does DisconnectAll
AllReturn ==
    /\ apc = "closing"
    /\ \A c \in asnap : gpc[c] = "done"
    /\ apc' = "returned"
    /\ UNCHANGED <<tunnels, connVars, monVars, discVars, asnap, gpc, uiVars, remover, refsAt>>
    /\ UNCHANGED <<portVars, poolVars, extVars>>

\* ---- Model.Update and its key handlers (ui.go) ----

\* updateNormal "space"/"enter", lines 360-365: Ready or Error: Connect
SpaceConnect(k) ==
    /\ mode = "normal"
    /\ status[k] \in {"Ready", "Error"}
    /\ FreeConns # {}
    /\ status' = [status EXCEPT ![k] = "Connecting"]
    /\ cpc' = [cpc EXCEPT ![NextConn] = "dial"]
    /\ ckey' = [ckey EXCEPT ![NextConn] = k]
    /\ UNCHANGED <<tunnels, client, listener, loop, monVars, discVars, allVars, mode, remover, refsAt>>
    /\ UNCHANGED <<portVars, poolVars, extVars>>

\* updateNormal "space", lines 366-368: Connected: Disconnect
SpaceDisconnect(k) ==
    /\ mode = "normal"
    /\ status[k] = "Connected"
    /\ FreeDiscs # {}
    /\ status' = [status EXCEPT ![k] = "Ready"]
    /\ dpc' = [dpc EXCEPT ![NextDisc] = "lookup"]
    /\ dkey' = [dkey EXCEPT ![NextDisc] = k]
    /\ UNCHANGED <<tunnels, connVars, monVars, dtun, allVars, mode, remover, refsAt>>
    /\ UNCHANGED <<portVars, poolVars, extVars>>

\* Update, tunnelConnectedMsg, lines 183-193: Connected, start MonitorTunnel
DeliverConnected(c) ==
    /\ cpc[c] = "ok"
    /\ cpc' = [cpc EXCEPT ![c] = "okSeen"]
    /\ status' = [status EXCEPT ![ckey[c]] = "Connected"]
    /\ mpc' = [mpc EXCEPT ![c] = "start"]
    /\ UNCHANGED <<tunnels, ckey, client, listener, loop, mtun, mgone, mdel, discVars, allVars, mode, remover, refsAt>>
    /\ UNCHANGED <<portVars, poolVars, extVars>>

\* an Update that starts MonitorTunnel for a failed Connect too
DeliverConnectErrorStartsMonitor(c) ==
    /\ cpc[c] \in ConnectErrors
    /\ cpc' = [cpc EXCEPT ![c] = "errSeen"]
    /\ status' = [status EXCEPT ![ckey[c]] = "Error"]
    /\ mpc' = [mpc EXCEPT ![c] = "start"]
    /\ UNCHANGED <<tunnels, ckey, client, listener, loop, mtun, mgone, mdel, discVars, allVars, mode, remover, refsAt>>
    /\ UNCHANGED <<portVars, poolVars, extVars>>

\* Update, tunnelErrorMsg of a failed Connect, lines 195-203
DeliverConnectError(c) ==
    /\ cpc[c] \in ConnectErrors
    /\ cpc' = [cpc EXCEPT ![c] = "errSeen"]
    /\ status' = [status EXCEPT ![ckey[c]] = "Error"]
    /\ UNCHANGED <<tunnels, ckey, client, listener, loop, monVars, discVars, allVars, mode, remover, refsAt>>
    /\ UNCHANGED <<portVars, poolVars, extVars>>

\* Update, tunnelErrorMsg "SSH connection lost" of a monitor, lines 195-203
DeliverLost(c) ==
    /\ mpc[c] = "lost"
    /\ mpc' = [mpc EXCEPT ![c] = "lostSeen"]
    /\ status' = [status EXCEPT ![ckey[c]] = "Error"]
    /\ UNCHANGED <<tunnels, connVars, mtun, mgone, mdel, discVars, allVars, mode, remover, refsAt>>
    /\ UNCHANGED <<portVars, poolVars, extVars>>

\* Update, tunnelDisconnectedMsg, lines 210-214
DeliverDisconnected(d) ==
    /\ dpc[d] = "ret"
    /\ dpc' = [dpc EXCEPT ![d] = "retSeen"]
    /\ status' = [status EXCEPT ![dkey[d]] = "Ready"]
    /\ UNCHANGED <<tunnels, connVars, monVars, dkey, dtun, allVars, mode, remover, refsAt>>
    /\ UNCHANGED <<portVars, poolVars, extVars>>

\* a checkTunnelHealth that reconnects every Connected entry, alive or not
UnhealthyAllConnected == {k \in Keys : status[k] = "Connected"}

\* the entries checkTunnelHealth reconnects: Connected and not IsAlive
Unhealthy == {k \in Keys : status[k] = "Connected" /\ tunnels[k] = 0}

\* the place of an unhealthy key in the loop over m.entries
SweepRank(k) == Cardinality({j \in Unhealthy : j = KeyA /\ k = KeyB})

\* Update, tunnelHealthMsg, and checkTunnelHealth, lines 885-900
HealthSweep ==
    /\ Unhealthy # {}
    /\ Cardinality(Unhealthy) <= Cardinality(FreeConns)
    /\ status' = [k \in Keys |-> IF k \in Unhealthy THEN "Connecting" ELSE status[k]]
    /\ cpc' = [c \in Conn |->
                 IF \E k \in Unhealthy : c = NextConn + SweepRank(k) THEN "dial" ELSE cpc[c]]
    /\ ckey' = [c \in Conn |->
                  IF \E k \in Unhealthy : c = NextConn + SweepRank(k)
                  THEN CHOOSE k \in Unhealthy : c = NextConn + SweepRank(k)
                  ELSE ckey[c]]
    /\ UNCHANGED <<tunnels, client, listener, loop, monVars, discVars, allVars, mode, remover, refsAt>>
    /\ UNCHANGED <<portVars, poolVars, extVars>>

\* updateNormal "ctrl+c" / updateConfirmQuit, and startDissolve, lines
\* 821-861: mode quitting, DisconnectAll runs as a command
Quit ==
    /\ mode = "normal"
    /\ mode' = "quitting"
    /\ apc' = "snapshot"
    /\ UNCHANGED <<tunnels, connVars, monVars, discVars, asnap, gpc, status, remover, refsAt>>
    /\ UNCHANGED <<portVars, poolVars, extVars>>

----------------------------------------------------------------------------
(* The local connections of the accept loop and forward (tunnel.go), the   *)
(* discoverMsg handler (ui.go) and IsAlive (tunnel.go).                    *)

Bytes == {1, 2}
MaxBytes == 2

\* one direction of forward: src holds the bytes written and not yet read by
\* io.Copy, buf the bytes io.Copy has read and not yet written, dst the bytes
\* it has written to the other side, wrote every byte the writer ever wrote,
\* eof whether the writer has closed its writing side, pc io.Copy's position
NoCopy ==
    [src |-> <<>>, buf |-> <<>>, dst |-> <<>>, wrote |-> <<>>,
     eof |-> FALSE, pc |-> "none"]

NoAlive == [key |-> "none", ok |-> FALSE]

\* the calls that take a mutex, one task each, and the accept loop goroutine
\* a successful Connect starts
AcquireTasks == {"Acquire1", "Acquire2"}
LockTasks == {"Connect", "loop", "MonitorTunnel", "Disconnect"} \cup AcquireTasks

LocksIdle ==
    /\ mu = "free"
    /\ pmu = "free"
    /\ tpc = [t \in LockTasks |-> IF t = "loop" THEN "none" ELSE "idle"]

ExtIdle ==
    /\ LocksIdle
    /\ accepted = [c \in Conn |-> "none"]
    /\ fowner = 0
    /\ fpc = "none"
    /\ errc = 0
    /\ toRemote = NoCopy
    /\ toLocal = NoCopy
    /\ mEntries = <<>>
    /\ aliveRet = NoAlive

\* ---- the accept loop goroutine of Connect, lines 77-93, with its local
\* ---- connection

\* line 80: listener.Accept returns the connection of a local client
AcceptConn(c) ==
    /\ AcceptLocalLoop(c)
    /\ accepted' = [accepted EXCEPT ![c] = "open"]
    /\ UNCHANGED <<fowner, fpc, errc, toRemote, toLocal, mEntries, aliveRet, lockVars>>

\* a failed client.Dial after which the loop closes the local connection and
\* goes on accepting
DialFailKeepsListening(c) ==
    /\ loop[c] = "dial"
    /\ loop' = [loop EXCEPT ![c] = "accept"]
    /\ accepted' = [accepted EXCEPT ![c] = "closed"]
    /\ UNCHANGED <<tunnels, ckey, cpc, client, listener, monVars, discVars, allVars, uiVars, remover, refsAt>>
    /\ UNCHANGED <<portVars, poolVars>>
    /\ UNCHANGED <<fowner, fpc, errc, toRemote, toLocal, mEntries, aliveRet, lockVars>>

\* a failed client.Dial that is taken for the end of the host's connection
\* and closes the listener of every tunnel of the host
DialFailClosesHost(c) ==
    /\ loop[c] = "dial"
    /\ listener' = [d \in Conn |->
                      IF listener[d] = "open" /\ HostOf(ckey[d]) = HostOf(ckey[c])
                      THEN "closed" ELSE listener[d]]
    /\ loop' = [loop EXCEPT ![c] = "exited"]
    /\ accepted' = [accepted EXCEPT ![c] = "closed"]
    /\ UNCHANGED <<tunnels, ckey, cpc, client, monVars, discVars, allVars, uiVars, remover, refsAt>>
    /\ UNCHANGED <<portVars, poolVars>>
    /\ UNCHANGED <<fowner, fpc, errc, toRemote, toLocal, mEntries, aliveRet, lockVars>>

\* lines 84-90 and 78: client.Dial fails: local.Close(), listener.Close(),
\* return, close(done)
DialFailClose(c) ==
    /\ RemoteDialFailLoop(c)
    /\ accepted' = [accepted EXCEPT ![c] = "closed"]
    /\ UNCHANGED <<fowner, fpc, errc, toRemote, toLocal, mEntries, aliveRet, lockVars>>

\* lines 84, 91: client.Dial succeeds, go forward(local, remote); the model
\* follows the bytes of one forward call
GoForward(c) ==
    /\ RemoteDialOkLoop(c)
    /\ fpc = "none"
    /\ accepted' = [accepted EXCEPT ![c] = "relayed"]
    /\ fowner' = c
    /\ fpc' = "wait"
    /\ errc' = 0
    /\ toRemote' = [NoCopy EXCEPT !.pc = "read"]
    /\ toLocal' = [NoCopy EXCEPT !.pc = "read"]
    /\ UNCHANGED <<mEntries, aliveRet, lockVars>>

\* ---- forward, lines 191-205 ----

\* the local connection until forward's deferred local.Close()
LocalOpen == fpc \in {"wait", "closing"}

\* the remote stream until forward's deferred remote.Close(), on a live
\* SSH connection
RemoteOpen == fpc = "wait" /\ client[fowner] = "open"

\* io.Copy ends (with or without an error) and its goroutine sends on errc
CopyEnded(d) == [d EXCEPT !.pc = "done"]

\* io.Copy reads what the source holds
CopyRead(d) == [d EXCEPT !.buf = d.src, !.src = <<>>, !.pc = "write"]

\* io.Copy writes what it read
CopyWritten(d) == [d EXCEPT !.dst = d.dst \o d.buf, !.buf = <<>>, !.pc = "read"]

\* the local client writes a byte to its connection
ClientWrite(b) ==
    /\ LocalOpen
    /\ ~toRemote.eof
    /\ Len(toRemote.wrote) < MaxBytes
    /\ toRemote' = [toRemote EXCEPT !.src = Append(toRemote.src, b), !.wrote = Append(toRemote.wrote, b)]
    /\ UNCHANGED <<accepted, fowner, fpc, errc, toLocal, mEntries, aliveRet, lockVars>>
    /\ UNCHANGED <<portVars, poolVars, mgrVars>>

\* the local client shuts toLocal the writing side of its connection
ClientCloseWrite ==
    /\ LocalOpen
    /\ ~toRemote.eof
    /\ toRemote' = [toRemote EXCEPT !.eof = TRUE]
    /\ UNCHANGED <<accepted, fowner, fpc, errc, toLocal, mEntries, aliveRet, lockVars>>
    /\ UNCHANGED <<portVars, poolVars, mgrVars>>

\* the remote endpoint writes a byte to the stream
RemoteWrite(b) ==
    /\ RemoteOpen
    /\ ~toLocal.eof
    /\ Len(toLocal.wrote) < MaxBytes
    /\ toLocal' = [toLocal EXCEPT !.src = Append(toLocal.src, b), !.wrote = Append(toLocal.wrote, b)]
    /\ UNCHANGED <<accepted, fowner, fpc, errc, toRemote, mEntries, aliveRet, lockVars>>
    /\ UNCHANGED <<portVars, poolVars, mgrVars>>

\* the remote endpoint ends its writing side of the stream
RemoteCloseWrite ==
    /\ RemoteOpen
    /\ ~toLocal.eof
    /\ toLocal' = [toLocal EXCEPT !.eof = TRUE]
    /\ UNCHANGED <<accepted, fowner, fpc, errc, toRemote, mEntries, aliveRet, lockVars>>
    /\ UNCHANGED <<portVars, poolVars, mgrVars>>

\* lines 200-203, io.Copy(remote, local): Read from the local connection
UpRead ==
    /\ toRemote.pc = "read"
    /\ IF ~LocalOpen
       THEN toRemote' = CopyEnded(toRemote) /\ errc' = errc + 1
       ELSE IF toRemote.src # <<>>
           THEN toRemote' = CopyRead(toRemote) /\ errc' = errc
           ELSE toRemote.eof /\ toRemote' = CopyEnded(toRemote) /\ errc' = errc + 1
    /\ UNCHANGED <<accepted, fowner, fpc, toLocal, mEntries, aliveRet, lockVars>>
    /\ UNCHANGED <<portVars, poolVars, mgrVars>>

\* lines 200-203, io.Copy(remote, local): Write to the remote stream
UpWrite ==
    /\ toRemote.pc = "write"
    /\ IF RemoteOpen
       THEN toRemote' = CopyWritten(toRemote) /\ errc' = errc
       ELSE toRemote' = CopyEnded(toRemote) /\ errc' = errc + 1
    /\ UNCHANGED <<accepted, fowner, fpc, toLocal, mEntries, aliveRet, lockVars>>
    /\ UNCHANGED <<portVars, poolVars, mgrVars>>

\* lines 196-199, io.Copy(local, remote): Read from the remote stream
DownRead ==
    /\ toLocal.pc = "read"
    /\ IF fpc # "wait"
       THEN toLocal' = CopyEnded(toLocal) /\ errc' = errc + 1
       ELSE IF toLocal.src # <<>>
           THEN toLocal' = CopyRead(toLocal) /\ errc' = errc
           ELSE /\ toLocal.eof \/ client[fowner] # "open"
                /\ toLocal' = CopyEnded(toLocal)
                /\ errc' = errc + 1
    /\ UNCHANGED <<accepted, fowner, fpc, toRemote, mEntries, aliveRet, lockVars>>
    /\ UNCHANGED <<portVars, poolVars, mgrVars>>

\* lines 196-199, io.Copy(local, remote): Write to the local connection
DownWrite ==
    /\ toLocal.pc = "write"
    /\ IF LocalOpen
       THEN toLocal' = CopyWritten(toLocal) /\ errc' = errc
       ELSE toLocal' = CopyEnded(toLocal) /\ errc' = errc + 1
    /\ UNCHANGED <<accepted, fowner, fpc, toRemote, mEntries, aliveRet, lockVars>>
    /\ UNCHANGED <<portVars, poolVars, mgrVars>>

\* a forward that returns with the local connection left open
ForwardNeverClosesLocal ==
    /\ fpc = "closing"
    /\ fpc' = "leaked"
    /\ UNCHANGED <<accepted, fowner, errc, toRemote, toLocal, mEntries, aliveRet, lockVars>>
    /\ UNCHANGED <<portVars, poolVars, mgrVars>>

\* lines 204 and 193: <-errc returns after the first io.Copy has ended; the
\* deferred remote.Close() runs
ForwardReturn ==
    /\ fpc = "wait"
    /\ errc > 0
    /\ errc' = errc - 1
    /\ fpc' = "closing"
    /\ UNCHANGED <<accepted, fowner, toRemote, toLocal, mEntries, aliveRet, lockVars>>
    /\ UNCHANGED <<portVars, poolVars, mgrVars>>

\* line 192: the deferred local.Close() runs and forward is over
ForwardCloseLocal ==
    /\ fpc = "closing"
    /\ fpc' = "returned"
    /\ UNCHANGED <<accepted, fowner, errc, toRemote, toLocal, mEntries, aliveRet, lockVars>>
    /\ UNCHANGED <<portVars, poolVars, mgrVars>>

\* ---- Model.Update, case discoverMsg, ui.go lines 152-181 ----

\* the entry of Model.entries with the key of e, as the existing map finds it
OldEntry(e) ==
    LET at == {j \in 1..Len(mEntries) : EntryKey(mEntries[j]) = EntryKey(e)}
    IN  IF at = {} THEN {} ELSE {mEntries[CHOOSE j \in at : \A i \in at : i <= j]}

\* lines 163-171: an entry whose key is already there keeps the old LocalPort
Merged(new) ==
    [i \in 1..Len(new) |->
        IF OldEntry(new[i]) = {} THEN new[i]
        ELSE [new[i] EXCEPT !.LocalPort = (CHOOSE o \in OldEntry(new[i]) : TRUE).LocalPort]]

\* discover (main.go, line 224) has run AssignPorts on the entries found, and
\* Update merges them into the Model
DiscoverMsg(found) ==
    /\ mEntries' = Merged(AssignPorts(found))
    /\ UNCHANGED <<fwdVars, aliveRet, lockVars>>
    /\ UNCHANGED <<portVars, poolVars, mgrVars>>

\* ---- TunnelManager.IsAlive, tunnel.go lines 154-159 ----

\* an IsAlive that also asks whether the tunnel's listener is open
IsAliveChecksListener(k) ==
    /\ aliveRet' = [key |-> k,
                    ok |-> tunnels[k] # 0 /\ listener[tunnels[k]] = "open"]
    /\ UNCHANGED <<fwdVars, mEntries, lockVars>>
    /\ UNCHANGED <<portVars, poolVars, mgrVars>>

IsAlive(k) ==
    /\ aliveRet' = [key |-> k, ok |-> tunnels[k] # 0]
    /\ UNCHANGED <<fwdVars, mEntries, lockVars>>
    /\ UNCHANGED <<portVars, poolVars, mgrVars>>

----------------------------------------------------------------------------
(* The two mutexes: where Connect, the accept loop, MonitorTunnel,          *)
(* Disconnect and Acquire take and give back TunnelManager.mu and          *)
(* sshPool.mu, and where they block.  A position is named after the call   *)
(* or the critical section the task is in.                                 *)

\* nothing but the mutexes and the positions changes
LockOnly == UNCHANGED <<portVars, poolVars, mgrVars, fwdVars, mEntries, aliveRet>>

\* a step outside every critical section: from position from to one of tos
Step(t, from, tos) ==
    /\ tpc[t] = from
    /\ \E p \in tos : tpc' = [tpc EXCEPT ![t] = p]
    /\ UNCHANGED <<mu, pmu>>
    /\ LockOnly

\* tm.mu.Lock(): blocks until the mutex is free
LockMu(t, from, to) ==
    /\ tpc[t] = from
    /\ mu = "free"
    /\ mu' = t
    /\ tpc' = [tpc EXCEPT ![t] = to]
    /\ UNCHANGED pmu
    /\ LockOnly

\* the critical section at position from, then tm.mu.Unlock()
UnlockMu(t, from, tos) ==
    /\ tpc[t] = from
    /\ mu = t
    /\ mu' = "free"
    /\ \E p \in tos : tpc' = [tpc EXCEPT ![t] = p]
    /\ UNCHANGED pmu
    /\ LockOnly

\* p.mu.Lock(): blocks until the mutex is free
LockPmu(t, from, to) ==
    /\ tpc[t] = from
    /\ pmu = "free"
    /\ pmu' = t
    /\ tpc' = [tpc EXCEPT ![t] = to]
    /\ UNCHANGED mu
    /\ LockOnly

\* the critical section at position from, then p.mu.Unlock()
UnlockPmu(t, from, tos) ==
    /\ tpc[t] = from
    /\ pmu = t
    /\ pmu' = "free"
    /\ \E p \in tos : tpc' = [tpc EXCEPT ![t] = p]
    /\ UNCHANGED mu
    /\ LockOnly

\* ---- Connect, lines 48-102
LkConnect ==
    \* the returned command starts running
    \/ Step("Connect", "idle", {"dialSSH"})
    \* lines 53-56: dialSSH(entry.SSHHost), an error returns
    \/ Step("Connect", "dialSSH", {"resolve", "returned"})
    \* lines 59-63: resolveContainerIP runs a command on the host
    \/ Step("Connect", "resolve", {"listen", "returned"})
    \* lines 66-70: net.Listen failed
    \/ Step("Connect", "listen", {"returned"})
    \* lines 66-93: net.Listen bound the port; the accept loop goroutine starts
    \/ /\ tpc["Connect"] = "listen"
       /\ tpc["loop"] \in {"none", "exited"}
       /\ tpc' = [tpc EXCEPT !["Connect"] = "lock95", !["loop"] = "accept"]
       /\ UNCHANGED <<mu, pmu>>
       /\ LockOnly
    \* line 95: tm.mu.Lock()
    \/ LockMu("Connect", "lock95", "store")
    \* lines 96-97: tm.tunnels[key] = tun; tm.mu.Unlock(); line 99 returns
    \/ UnlockMu("Connect", "store", {"returned"})

\* ---- the accept loop, lines 77-93
LkLoop ==
    \* line 80: listener.Accept() returns a connection or an error
    \/ Step("loop", "accept", {"dial", "exited"})
    \* lines 84-90: client.Dial to the remote end; on an error the loop ends
    \/ Step("loop", "dial", {"accept", "exited"})

\* ---- MonitorTunnel, lines 123-151
LkMonitor ==
    \/ Step("MonitorTunnel", "idle", {"lock125"})
    \* line 125: tm.mu.Lock()
    \/ LockMu("MonitorTunnel", "lock125", "lookup")
    \* lines 126-131: tun, ok := tm.tunnels[key]; tm.mu.Unlock(); !ok returns
    \/ UnlockMu("MonitorTunnel", "lookup", {"wait", "returned"})
    \* line 133: tun.client.Wait() returns
    \/ Step("MonitorTunnel", "wait", {"lock135"})
    \* line 135: tm.mu.Lock()
    \/ LockMu("MonitorTunnel", "lock135", "recheck")
    \* lines 136-143: the re-check and the delete; tm.mu.Unlock()
    \/ UnlockMu("MonitorTunnel", "recheck", {"closeListener", "returned"})
    \* lines 146-149: tun.listener.Close(); <-tun.done
    \/ Step("MonitorTunnel", "closeListener", {"returned"})

\* ---- Disconnect, lines 105-120
LkDisconnect ==
    \/ Step("Disconnect", "idle", {"lock108"})
    \* line 108: tm.mu.Lock()
    \/ LockMu("Disconnect", "lock108", "remove")
    \* lines 109-113: the lookup and the delete; tm.mu.Unlock()
    \/ UnlockMu("Disconnect", "remove", {"closeTunnel", "returned"})
    \* lines 115-118: closeTunnel(tun)
    \/ Step("Disconnect", "closeTunnel", {"returned"})

\* ---- Acquire, lines 291-337
LkAcquireCall(t) == Step(t, "idle", {"lock292"})

\* line 292: p.mu.Lock()
LkAcquireLock(t) == LockPmu(t, "lock292", "check")

\* a first critical section that unlocks on the hit path only and goes on to
\* dial with p.mu held
LkAcquireCheckKeepsLock(t) ==
    \/ UnlockPmu(t, "check", {"returned"})
    \/ /\ tpc[t] = "check"
       /\ pmu = t
       /\ tpc' = [tpc EXCEPT ![t] = "dialSSH"]
       /\ UNCHANGED <<mu, pmu>>
       /\ LockOnly

\* lines 293-304: a live entry: refs++, p.mu.Unlock(), return; a dead one is
\* deleted; on a miss p.mu.Unlock() at line 304, then the dial
LkAcquireCheck(t) == UnlockPmu(t, "check", {"returned", "dialSSH"})

\* lines 307-310: dialSSH(sshHost) outside the lock; an error returns
LkAcquireDial(t) == Step(t, "dialSSH", {"lock319", "returned"})

\* line 319: p.mu.Lock()
LkAcquireRelock(t) == LockPmu(t, "lock319", "publish")

\* lines 320-336: the entry is stored, or the race is lost and the pooled
\* connection is taken; the deferred p.mu.Unlock() runs at the return
LkAcquirePublish(t) == UnlockPmu(t, "publish", {"returned"})

\* the call has returned; the task is free for the next call
LkReturn(t) == Step(t, "returned", {"idle"})

----------------------------------------------------------------------------
(* The specifications. *)

InitPorts ==
    /\ PoolIdle
    /\ MgrIdle
    /\ ExtIdle
    /\ entries \in SeqsOver(TenantPool, MaxEntries)
    /\ used = {}
    /\ ppc = "sort"
    /\ pidx = 0

NextPorts == SortEntries \/ AssignOne \/ AssignDone

SpecPorts == InitPorts /\ [][NextPorts]_vars

InitPool ==
    /\ PortsIdle
    /\ PoolIdle
    /\ MgrIdle
    /\ ExtIdle

NextPool ==
    \/ \E c \in Callers, h \in PoolHosts : AcquireCheck(c, h)
    \/ \E c \in Callers : AcquireDialOk(c)
    \/ \E c \in Callers : AcquireDialFail(c)
    \/ \E c \in Callers : AcquirePublish(c)
    \/ \E c \in Callers : Release(c)
    \/ \E id \in Clients : ConnDies(id)
    \/ \E id \in Clients : Watcher(id)
    \/ \E h \in PoolHosts : Dead(h)
    \/ CloseAll

SpecPool == InitPool /\ [][NextPool]_vars

\* the pool under Acquire and Release calls alone, connections ending or not
NextAcquireRelease ==
    \/ \E c \in Callers, h \in PoolHosts : AcquireCheck(c, h)
    \/ \E c \in Callers : AcquireDialOk(c)
    \/ \E c \in Callers : AcquireDialFail(c)
    \/ \E c \in Callers : AcquirePublish(c)
    \/ \E c \in Callers : Release(c)
    \/ \E id \in Clients : ConnDies(id)
    \/ \E id \in Clients : Watcher(id)

SpecAcquireRelease == InitPool /\ [][NextAcquireRelease]_vars

InitMgr ==
    /\ PortsIdle
    /\ PoolIdle
    /\ MgrIdle
    /\ ExtIdle

Init == InitMgr

Next ==
    \/ \E k \in Keys : SpaceConnect(k)
    \/ \E k \in Keys : SpaceDisconnect(k)
    \/ \E c \in Conn : DeliverConnected(c)
    \/ \E c \in Conn : DeliverConnectError(c)
    \/ \E c \in Conn : DeliverLost(c)
    \/ \E d \in Disc : DeliverDisconnected(d)
    \/ HealthSweep
    \/ Quit
    \/ \E c \in Conn : ConnectDialOk(c)
    \/ \E c \in Conn : ConnectDialFail(c)
    \/ \E c \in Conn : ConnectResolveOk(c)
    \/ \E c \in Conn : ConnectResolveFail(c)
    \/ \E c \in Conn : ConnectListenOk(c)
    \/ \E c \in Conn : ConnectListenFail(c)
    \/ \E c \in Conn : ConnectRegister(c)
    \/ \E c \in Conn : AcceptLocal(c)
    \/ \E c \in Conn : AcceptClosed(c)
    \/ \E c \in Conn : RemoteDialOk(c)
    \/ \E c \in Conn : RemoteDialFail(c)
    \/ \E c \in Conn : ClientDies(c)
    \/ \E d \in Disc : DisconnectLookup(d)
    \/ \E d \in Disc : DisconnectCloseListener(d)
    \/ \E d \in Disc : DisconnectCloseClient(d)
    \/ \E d \in Disc : DisconnectWaitDone(d)
    \/ \E c \in Conn : MonitorStart(c)
    \/ \E c \in Conn : MonitorRecheck(c)
    \/ \E c \in Conn : MonitorCloseListener(c)
    \/ \E c \in Conn : MonitorWaitDone(c)
    \/ AllSnapshot
    \/ \E c \in Conn : AllCloseListener(c)
    \/ \E c \in Conn : AllCloseClient(c)
    \/ \E c \in Conn : AllWaitDone(c)
    \/ AllReturn

Spec == Init /\ [][Next]_vars

\* the steps of each goroutine; the Go scheduler runs every runnable goroutine
ConnectStep(c) ==
    \/ ConnectDialOk(c) \/ ConnectDialFail(c)
    \/ ConnectResolveOk(c) \/ ConnectResolveFail(c)
    \/ ConnectListenOk(c) \/ ConnectListenFail(c)
    \/ ConnectRegister(c)

\* the accept loop's own steps: a local client connecting is not one of them
LoopStep(c) == AcceptClosed(c) \/ RemoteDialOk(c) \/ RemoteDialFail(c)

MonitorStep(c) ==
    \/ MonitorStart(c) \/ MonitorRecheck(c)
    \/ MonitorCloseListener(c) \/ MonitorWaitDone(c)

AllStep == AllSnapshot \/ AllReturn

AllCloseStep(c) == AllCloseListener(c) \/ AllCloseClient(c) \/ AllWaitDone(c)

\* Update handles every message a command has returned
UpdateStep ==
    \E c \in Conn : DeliverConnected(c) \/ DeliverConnectError(c) \/ DeliverLost(c)

Fairness ==
    /\ \A c \in Conn : WF_vars(ConnectStep(c))
    /\ \A c \in Conn : WF_vars(LoopStep(c))
    /\ \A c \in Conn : WF_vars(MonitorStep(c))
    /\ WF_vars(AllStep)
    /\ \A c \in Conn : WF_vars(AllCloseStep(c))
    /\ WF_vars(UpdateStep)

\* the manager and the Model without the Disconnect command
FairNext ==
    \/ \E k \in Keys : SpaceConnect(k)
    \/ \E c \in Conn : DeliverConnected(c)
    \/ \E c \in Conn : DeliverConnectError(c)
    \/ \E c \in Conn : DeliverLost(c)
    \/ HealthSweep
    \/ Quit
    \/ \E c \in Conn : ConnectDialOk(c)
    \/ \E c \in Conn : ConnectDialFail(c)
    \/ \E c \in Conn : ConnectResolveOk(c)
    \/ \E c \in Conn : ConnectResolveFail(c)
    \/ \E c \in Conn : ConnectListenOk(c)
    \/ \E c \in Conn : ConnectListenFail(c)
    \/ \E c \in Conn : ConnectRegister(c)
    \/ \E c \in Conn : AcceptLocal(c)
    \/ \E c \in Conn : AcceptClosed(c)
    \/ \E c \in Conn : RemoteDialOk(c)
    \/ \E c \in Conn : RemoteDialFail(c)
    \/ \E c \in Conn : ClientDies(c)
    \/ \E c \in Conn : MonitorStart(c)
    \/ \E c \in Conn : MonitorRecheck(c)
    \/ \E c \in Conn : MonitorCloseListener(c)
    \/ \E c \in Conn : MonitorWaitDone(c)
    \/ AllSnapshot
    \/ \E c \in Conn : AllCloseListener(c)
    \/ \E c \in Conn : AllCloseClient(c)
    \/ \E c \in Conn : AllWaitDone(c)
    \/ AllReturn

\* the manager and the Model, every goroutine scheduled fairly and every
\* returned message handled; key presses, health ticks, local clients and
\* connection deaths happen or not
FairSpec == Init /\ [][FairNext]_vars /\ Fairness

DisconnectStep(d) ==
    \/ DisconnectLookup(d) \/ DisconnectCloseListener(d)
    \/ DisconnectCloseClient(d) \/ DisconnectWaitDone(d)

RunFairness ==
    /\ \A c \in Conn : WF_vars(ConnectStep(c))
    /\ \A c \in Conn : WF_vars(LoopStep(c))
    /\ \A c \in Conn : WF_vars(MonitorStep(c))
    /\ \A d \in Disc : WF_vars(DisconnectStep(d))
    /\ WF_vars(UpdateStep \/ \E d \in Disc : DeliverDisconnected(d))

\* the manager and the Model while the program runs, before any shutdown
RunNext ==
    \/ \E k \in Keys : SpaceConnect(k)
    \/ \E k \in Keys : SpaceDisconnect(k)
    \/ \E c \in Conn : DeliverConnected(c)
    \/ \E c \in Conn : DeliverConnectError(c)
    \/ \E c \in Conn : DeliverLost(c)
    \/ \E d \in Disc : DeliverDisconnected(d)
    \/ HealthSweep
    \/ \E c \in Conn : ConnectDialOk(c)
    \/ \E c \in Conn : ConnectDialFail(c)
    \/ \E c \in Conn : ConnectResolveOk(c)
    \/ \E c \in Conn : ConnectResolveFail(c)
    \/ \E c \in Conn : ConnectListenOk(c)
    \/ \E c \in Conn : ConnectListenFail(c)
    \/ \E c \in Conn : ConnectRegister(c)
    \/ \E c \in Conn : AcceptLocal(c)
    \/ \E c \in Conn : AcceptClosed(c)
    \/ \E c \in Conn : RemoteDialOk(c)
    \/ \E c \in Conn : RemoteDialFail(c)
    \/ \E c \in Conn : ClientDies(c)
    \/ \E d \in Disc : DisconnectLookup(d)
    \/ \E d \in Disc : DisconnectCloseListener(d)
    \/ \E d \in Disc : DisconnectCloseClient(d)
    \/ \E d \in Disc : DisconnectWaitDone(d)
    \/ \E c \in Conn : MonitorStart(c)
    \/ \E c \in Conn : MonitorRecheck(c)
    \/ \E c \in Conn : MonitorCloseListener(c)
    \/ \E c \in Conn : MonitorWaitDone(c)

\* the running program under the same scheduling, Disconnect commands included
RunSpec == Init /\ [][RunNext]_vars /\ RunFairness

----------------------------------------------------------------------------
(* The claims.                                                             *)

Registered(c) == \E k \in Keys : tunnels[k] = c

\* a monitor that has gone past its re-check on the "lost connection" path
MonitorReports(c) == mpc[c] \in {"closeListener", "waitDone", "lost", "lostSeen"}

\* C1: a MonitorTunnel whose re-check after waking finds the key removed from
\* the registry by a Disconnect returns no message: it never goes on to
\* return the "SSH connection lost" tunnelErrorMsg for that key.
C1_MonitorSilentAfterDisconnect ==
    \A c \in Conn : mgone[c] = "disconnect" => ~MonitorReports(c)

\* C1 witness: a monitor woke after a Disconnect had removed its key, and
\* returned nil.
C1_Witness ==
    \E c \in Conn : mgone[c] = "disconnect" /\ mpc[c] = "nil"

\* a Connect that has returned a tunnelErrorMsg
ConnectFailed(c) == cpc[c] \in ConnectErrors \cup {"errSeen"}

\* C3: once Connect has returned a tunnelErrorMsg, whatever the stage that
\* failed, the registry holds no Tunnel of that call, the call's connection is
\* not open and it left no listener behind.
C3_FailedConnectLeavesNothing ==
    \A c \in Conn :
        ConnectFailed(c) =>
            /\ ~Registered(c)
            /\ client[c] # "open"
            /\ listener[c] = "none"

\* C3 witness: a Connect failed to bind its local port while another tunnel
\* of the same entry still held it, after it had dialed its connection.
C3_Witness ==
    \E c \in Conn :
        /\ cpc[c] = "errListen"
        /\ client[c] = "closed"
        /\ ~PortFree(ckey[c])

\* C4: when DisconnectAll returns, every Tunnel it found in the registry has
\* its listener closed, its accept loop ended (done closed) and its SSH
\* connection closed, and none of them is in the registry; the step that took
\* the snapshot left the registry empty.
C4_DisconnectAllClosesAll ==
    /\ [](apc = "returned" =>
            \A c \in asnap :
                /\ listener[c] = "closed"
                /\ loop[c] = "exited"
                /\ client[c] = "closed"
                /\ ~Registered(c))
    /\ [][apc = "snapshot" /\ apc' # "snapshot" => \A k \in Keys : tunnels'[k] = 0]_vars

\* C4 witness: DisconnectAll has returned after closing two registered tunnels.
C4_Witness ==
    /\ apc = "returned"
    /\ Cardinality(asnap) = 2

\* C5: under fair scheduling DisconnectAll, once started, returns, whatever
\* the tunnels of its snapshot are doing (connection ended, accept loop
\* leaving on a failed remote dial, monitor on its lost-connection path).
C5_DisconnectAllTerminates == (apc = "snapshot") ~> (apc = "returned")

\* C5 witness: DisconnectAll has returned although a monitor was tearing down
\* a tunnel of a dead connection at the same time.
C5_Witness ==
    /\ apc = "returned"
    /\ \E c \in asnap : \E m \in Conn : mtun[m] = c /\ mgone[m] = "all"
    /\ \E m \in Conn : mpc[m] \in {"closeListener", "waitDone"}

\* C8: under fair scheduling every registered Tunnel whose SSH connection has
\* ended is eventually out of the registry with its listener closed, and when
\* it was a monitor that removed it, the "SSH connection lost" tunnelErrorMsg
\* has been reported for its key.
C8_DeadTunnelsTornDown ==
    \A c \in Conn :
        (Registered(c) /\ client[c] = "closed")
            ~> (/\ ~Registered(c)
                /\ listener[c] = "closed"
                /\ \A m \in Conn : mdel[m] = c => mpc[m] = "lostSeen")

\* the callers attached to the connection of a host's pool entry: their
\* Acquire of the host returned that connection and they have not released it
Attached(h) ==
    {c \in Callers : qpc[c] = "holding" /\ qhost[c] = h /\ qclient[c] = conns[h].client}

\* C2: under any interleaving of Acquire and Release the pool has at most one
\* entry per host (conns is a map keyed by host), and the refs of a host's
\* entry is the number of callers attached to that entry's connection.
C2_RefsCountAttachedCallers ==
    \A h \in PoolHosts : HasEntry(h) => conns[h].refs = Cardinality(Attached(h))

\* a Disconnect of a registered tunnel that has returned
Disconnected(d) == dpc[d] \in {"ret", "retSeen"} /\ dtun[d] # 0

\* C6: when a Disconnect that followed a successful Connect of its entry has
\* returned, the pool's reference count of the entry's host is strictly lower
\* than it was when that Connect registered the tunnel, monitor racing or not.
C6_DisconnectLowersHostRefs ==
    \A d \in Disc :
        Disconnected(d) => HostRefs(HostOf(dkey[d])) < refsAt[dtun[d]]

\* the connections the manager's tunnels have open to the host
OpenClients == {c \in Conn : client[c] = "open"}

\* C7: with tenants a and b of host db1 both connected there is one open
\* connection to db1 and its reference count is 2; once Disconnect of one of
\* them has returned and the other is still connected, the count is 1 and one
\* connection is open; once both are disconnected the count is 0 and no
\* connection is open.
C7_SharedHostScenario ==
    LET up == {k \in Keys : tunnels[k] # 0 /\ client[tunnels[k]] = "open"}
        downs == {d \in Disc : Disconnected(d)}
        settled == /\ \A c \in Conn : cpc[c] \in {"none", "okSeen"}
                   /\ \A d \in Disc : dpc[d] \in {"none", "ret", "retSeen"}
                   /\ \A c \in Conn : client[c] = "closed" => \E d \in downs : dtun[d] = c
                   /\ apc = "none"
    IN  settled =>
            /\ (up = Keys /\ downs = {}) =>
                   HostRefs("db1") = 2 /\ Cardinality(OpenClients) = 1
            /\ (Cardinality(up) = 1 /\ Cardinality(downs) = 1) =>
                   HostRefs("db1") = 1 /\ Cardinality(OpenClients) = 1
            /\ (up = {} /\ Cardinality(downs) = 2) =>
                   HostRefs("db1") = 0 /\ OpenClients = {}

\* C9: every LocalPort AssignPorts has assigned lies in
\* [portRangeMin, portRangeMax] = [10000, 65535], also when the hashed port
\* was taken and the probe started at or reached 65535.
C9_PortsInRange ==
    ppc = "done" =>
        \A i \in 1..Len(entries) :
            entries[i].LocalPort \in portRangeMin..portRangeMax

\* C10: one run of AssignPorts gives no two entries the same LocalPort.
C10_PortsUnique ==
    ppc = "done" =>
        \A i, j \in 1..Len(entries) :
            i # j => entries[i].LocalPort # entries[j].LocalPort

\* C10 witness: a run over three entries has ended in which an entry's hashed
\* port was taken and the probe moved it to another port.
C10_Witness ==
    /\ ppc = "done"
    /\ Len(entries) = 3
    /\ \E i \in 1..Len(entries) :
           entries[i].LocalPort # hashPort(entries[i].Host, entries[i].Tenant)

\* C11: AssignPorts is a function of the set of entry identities: when a run
\* has ended, running AssignPorts again on the same entries presented in any
\* order gives every composite key the port this run gave it.
C11_PortsIndependentOfOrder ==
    ppc = "done" =>
        \A t \in Orders(entries) :
            \A i, j \in 1..Len(entries) :
                EntryKey(AssignPorts(t)[i]) = EntryKey(entries[j]) =>
                    AssignPorts(t)[i].LocalPort = entries[j].LocalPort

\* C11 witness: a run over three entries has ended in which two keys hashed
\* to the same port, so that the order of assignment decided who got it.
C11_Witness ==
    /\ ppc = "done"
    /\ Len(entries) = 3
    /\ \E i, j \in 1..Len(entries) :
           /\ i # j
           /\ hashPort(entries[i].Host, entries[i].Tenant)
                = hashPort(entries[j].Host, entries[j].Tenant)

\* C12: when a run over exactly two entries whose keys hash to the same port p
\* has ended, the key that sorts first has port p and the key that sorts
\* second has the next port of the range (p + 1, or portRangeMin after
\* portRangeMax).
C12_CollisionGivesConsecutivePorts ==
    (/\ ppc = "done"
     /\ Len(entries) = 2
     /\ hashPort(entries[1].Host, entries[1].Tenant)
          = hashPort(entries[2].Host, entries[2].Tenant)) =>
        LET p == hashPort(entries[1].Host, entries[1].Tenant)
        IN  /\ StrLess(EntryKey(entries[1]), EntryKey(entries[2]))
            /\ entries[1].LocalPort = p
            /\ entries[2].LocalPort = IF p = portRangeMax THEN portRangeMin ELSE p + 1

\* the connections dialSSH has handed out that nobody has closed
OpenConns == {id \in Clients : cstate[id] = "open"}

\* C13: when an Acquire that dialed comes to publish and finds that a racing
\* Acquire of the host has published a live connection first, it returns that
\* connection, adds exactly one to its reference count and closes the
\* connection it dialed itself before it returns; otherwise it publishes its
\* own with count 1.  No connection leaks: every open connection is the
\* pool's entry of a host or is in the hands of an Acquire that has not yet
\* returned, so once the racers have returned one open connection is left.
C13_RaceKeepsFirstPublished ==
    /\ [][\A c \in Callers :
            (qpc[c] = "publish" /\ qpc'[c] = "holding") =>
                LET h == qhost[c]
                IN  IF HasEntry(h) /\ ~EntryDead(h)
                    THEN /\ qclient[c] # conns[h].client
                         /\ qclient'[c] = conns[h].client
                         /\ conns'[h] = [conns[h] EXCEPT !.refs = @ + 1]
                         /\ cstate'[qclient[c]] = "closed"
                         /\ cstate'[conns[h].client] = cstate[conns[h].client]
                    ELSE conns'[h] = [client |-> qclient[c], refs |-> 1]]_vars
    /\ [](\A id \in OpenConns :
            \/ \E h \in PoolHosts : HasEntry(h) /\ conns[h].client = id
            \/ \E c \in Callers : qpc[c] = "publish" /\ qclient[c] = id)

\* C13 witness: two racers of a host hold the connection published first with
\* reference count 2, the connection the loser dialed is closed though it
\* never died, and a third racer is still on its way to publish its own.
C13_Witness ==
    \E a, b, c \in Callers : \E id \in Clients :
        /\ a # b
        /\ qpc[a] = "holding" /\ qpc[b] = "holding" /\ qpc[c] = "publish"
        /\ qhost[a] = qhost[b] /\ qhost[b] = qhost[c]
        /\ conns[qhost[a]] = [client |-> qclient[a], refs |-> 2]
        /\ qclient[b] = qclient[a]
        /\ id # qclient[a] /\ cstate[id] = "closed" /\ ~deadCh[id]
        /\ cstate[qclient[a]] = "open" /\ cstate[qclient[c]] = "open"

\* C14: an Acquire that finds a live entry for its host returns that entry's
\* connection, adds exactly one to its reference count and dials nothing; it
\* goes on to dial only when the host has no entry or the entry's dead channel
\* is closed; a connection it returns from the pool's entry is never one whose
\* dead channel it found closed.
C14_AcquireSharesLiveEntry ==
    [][\A c \in Callers :
         (qpc[c] = "idle" /\ qpc'[c] # "idle") =>
             LET h == qhost'[c]
             IN  IF HasEntry(h) /\ ~EntryDead(h)
                 THEN /\ qpc'[c] = "holding"
                      /\ qclient'[c] = conns[h].client
                      /\ ~deadCh[qclient'[c]]
                      /\ conns'[h] = [conns[h] EXCEPT !.refs = @ + 1]
                      /\ cstate' = cstate
                 ELSE /\ qpc'[c] = "dial"
                      /\ cstate' = cstate
                      /\ \A g \in PoolHosts \ {h} : conns'[g] = conns[g]]_vars

\* C14 witness: two callers hold the one connection ever dialed, with
\* reference count 2: the second Acquire dialed nothing.
C14_Witness ==
    \E a, b \in Callers :
        /\ a # b
        /\ qpc[a] = "holding" /\ qpc[b] = "holding"
        /\ qhost[a] = qhost[b]
        /\ qclient[a] = qclient[b]
        /\ conns[qhost[a]] = [client |-> qclient[a], refs |-> 2]
        /\ \A id \in Clients \ {qclient[a]} : cstate[id] = "none"

\* C15: no step of an Acquire whose dial fails creates a pool entry or changes
\* a reference count: after its first critical section and after its failing
\* return every entry of the pool is one that was there before, with the same
\* connection and count, and the failing return hands back an error and
\* leaves the pool and the connections alone.
C15_FailedAcquireAddsNothing ==
    [][\A c \in Callers :
         /\ (qpc[c] = "idle" /\ qpc'[c] = "dial") =>
                \A h \in PoolHosts : HasEntry(h)' => conns'[h] = conns[h]
         /\ (qpc[c] = "dial" /\ qpc'[c] = "idle") =>
                /\ qerr'[c]
                /\ conns' = conns
                /\ cstate' = cstate]_vars

\* C15 witness: an Acquire has returned an error for a host for which a
\* racer's connection is in the pool with reference count 1.
C15_Witness ==
    \E c \in Callers :
        /\ qpc[c] = "idle" /\ qerr[c]
        /\ HasEntry(qhost[c])
        /\ conns[qhost[c]].refs = 1
        /\ \E a \in Callers : a # c /\ qpc[a] = "holding" /\ qhost[a] = qhost[c]

\* C16: Release of a host takes one from its entry's reference count; when
\* the count was above 1 the entry stays and its connection stays as it was;
\* when the count reaches zero the connection is closed and the entry removed;
\* when the host has no entry nothing changes.
C16_ReleaseCountsDown ==
    [][\A c \in Callers :
         (qpc[c] = "holding" /\ qpc'[c] = "idle") =>
             LET h == qhost[c]
                 e == conns[h]
             IN  IF ~HasEntry(h)
                 THEN conns' = conns /\ cstate' = cstate
                 ELSE IF e.refs > 1
                 THEN /\ conns'[h] = [e EXCEPT !.refs = e.refs - 1]
                      /\ cstate' = cstate
                 ELSE /\ conns'[h] = NoConn
                      /\ cstate'[e.client] = "closed"]_vars

\* C16 witness: a caller has released host db2 and left its entry with
\* reference count 1 and its connection open, while a connection released to
\* zero is closed.
C16_Witness ==
    \E c \in Callers :
        /\ qpc[c] = "idle" /\ ~qerr[c] /\ qhost[c] = "db2"
        /\ conns["db2"].refs = 1
        /\ cstate[conns["db2"].client] = "open"
        /\ ~HasEntry("db1")
        /\ \E id \in Clients : cstate[id] = "closed" /\ ~deadCh[id]

\* C17: Dead of a host that has a pool entry returns that entry's dead
\* channel; Dead of a host without entry returns a channel of its own that is
\* already closed, so that a receive on it does not block.
C17_DeadOfNoEntryIsFired ==
    [][deadRet' # deadRet =>
         LET h == deadRet'.host
         IN  IF HasEntry(h)
             THEN /\ deadRet'.ch = conns[h].client
                  /\ deadRet'.fired = deadCh[conns[h].client]
             ELSE /\ deadRet'.ch = 0
                  /\ deadRet'.fired]_vars

\* C17 witness: Dead was called for db2, which has no entry, while db1 has
\* one, and returned a closed channel of its own.
C17_Witness ==
    /\ deadRet = [host |-> "db2", ch |-> 0, fired |-> TRUE]
    /\ ~HasEntry("db2")
    /\ HasEntry("db1")

\* C18: when CloseAll returns, every connection that was in the pool is
\* closed, whatever its reference count, and the pool has no entry.
C18_CloseAllClosesEverything ==
    [][closeAlls' # closeAlls =>
         /\ \A h \in PoolHosts : HasEntry(h) => cstate'[conns[h].client] = "closed"
         /\ \A h \in PoolHosts : conns'[h] = NoConn]_vars

\* C18 witness: CloseAll has returned and a connection two callers still hold
\* is closed without its dead channel having fired before.
C18_Witness ==
    /\ closeAlls = 1
    /\ \A h \in PoolHosts : ~HasEntry(h)
    /\ \E a, b \in Callers :
           /\ a # b
           /\ qpc[a] = "holding" /\ qpc[b] = "holding"
           /\ qclient[a] = qclient[b]
           /\ cstate[qclient[a]] = "closed"
           /\ ~deadCh[qclient[a]]

\* C19: a Disconnect whose key is not in the registry returns its
\* tunnelDisconnectedMsg straight from the lookup, with nothing to wait for,
\* and leaves the registry and every tunnel's listener, connection and accept
\* loop as they were; so a second Disconnect after a first changes nothing.
C19_DisconnectAbsentKeyIsNoOp ==
    [][\A d \in Disc :
         (dpc[d] = "lookup" /\ dpc'[d] # "lookup" /\ tunnels[dkey[d]] = 0) =>
             /\ dpc'[d] = "ret"
             /\ dtun'[d] = 0
             /\ tunnels' = tunnels
             /\ client' = client
             /\ listener' = listener
             /\ loop' = loop]_vars

\* C19 witness: two Disconnects of one key have returned; the first removed
\* the tunnel, the second came after it and found the key gone.
C19_Witness ==
    \E d1, d2 \in Disc :
        /\ d1 # d2
        /\ dkey[d1] = dkey[d2]
        /\ Disconnected(d1)
        /\ dpc[d2] \in {"ret", "retSeen"} /\ dtun[d2] = 0
        /\ remover[dkey[d1]] = "disconnect"
        /\ tunnels[dkey[d1]] = 0

C28_MonitorWakesOnDone ==
    \A m \in Conn :
        (mpc[m] = "wait" /\ loop[mtun[m]] = "exited") ~> (mpc[m] # "wait")

\* C29: a Release by a caller whose connection is no longer the one in the
\* host's entry (it died and an Acquire replaced it) leaves the entry, its
\* reference count and every connection as they were.
C29_StaleReleaseSparesReplacement ==
    [][\A c \in Callers :
         (/\ qpc[c] = "holding" /\ qpc'[c] = "idle"
          /\ HasEntry(qhost[c])
          /\ conns[qhost[c]].client # qclient[c]) =>
             /\ conns' = conns
             /\ cstate' = cstate]_vars

\* C30: a MonitorTunnel removes from the registry no Tunnel but the one it
\* started watching, and goes on to report "SSH connection lost" only when it
\* removed that one.
C30_MonitorRemovesOnlyItsTunnel ==
    \A m \in Conn :
        /\ mdel[m] \in {0, mtun[m]}
        /\ MonitorReports(m) => mdel[m] = mtun[m]

\* A Tunnel exists once Connect has its listener (the Tunnel struct is built
\* right after net.Listen succeeds); it holds resources while its listener
\* or its connection is open.
Created(c) == listener[c] # "none"
Holds(c) == listener[c] = "open" \/ client[c] = "open"

\* C21: there is at most one Tunnel per composite key: no two Tunnels created
\* for the same key both hold an open listener or an open connection, and
\* Connect stores its Tunnel over a registered one only when that one has been
\* torn down.
C21_OneTunnelPerKey ==
    /\ [](\A c, d \in Conn :
            (c # d /\ Created(c) /\ Created(d) /\ ckey[c] = ckey[d]) =>
                ~(Holds(c) /\ Holds(d)))
    /\ [][\A c \in Conn :
            (cpc[c] = "register" /\ cpc'[c] = "ok" /\ tunnels[ckey[c]] # 0) =>
                ~Holds(tunnels[ckey[c]])]_vars

----------------------------------------------------------------------------
(* Tunnels that forward: Connect, the accept loops with their local        *)
(* connections, and one forward call followed byte by byte.                *)

\* the program once Connect has returned for KeyA (Tunnel 1) and for KeyB
\* (Tunnel 2) and Update has handled both tunnelConnectedMsg
TunnelOf(k) == IF k = KeyA THEN 1 ELSE 2

KeyOf(c) == IF c = 1 THEN KeyA ELSE IF c = 2 THEN KeyB ELSE "none"

InitForward ==
    /\ PortsIdle
    /\ PoolIdle
    /\ ExtIdle
    /\ tunnels = [k \in Keys |-> TunnelOf(k)]
    /\ ckey = [c \in Conn |-> KeyOf(c)]
    /\ cpc = [c \in Conn |-> IF c <= 2 THEN "okSeen" ELSE "none"]
    /\ client = [c \in Conn |-> IF c <= 2 THEN "open" ELSE "none"]
    /\ listener = [c \in Conn |-> IF c <= 2 THEN "open" ELSE "none"]
    /\ loop = [c \in Conn |-> IF c <= 2 THEN "accept" ELSE "none"]
    /\ mpc = [c \in Conn |-> IF c <= 2 THEN "start" ELSE "none"]
    /\ mtun = [c \in Conn |-> 0]
    /\ mgone = [c \in Conn |-> "unset"]
    /\ mdel = [c \in Conn |-> 0]
    /\ dpc = [d \in Disc |-> "none"]
    /\ dkey = [d \in Disc |-> "none"]
    /\ dtun = [d \in Disc |-> 0]
    /\ apc = "none"
    /\ asnap = {}
    /\ gpc = [c \in Conn |-> "none"]
    /\ status = [k \in Keys |-> "Connected"]
    /\ mode = "normal"
    /\ remover = [k \in Keys |-> "none"]
    /\ refsAt = [c \in Conn |-> 0]

NextForward ==
    \/ \E c \in Conn : AcceptConn(c)
    \/ \E c \in Conn : DialFailClose(c)
    \/ \E c \in Conn : GoForward(c)
    \/ \E c \in Conn : ClientDies(c)
    \/ \E b \in Bytes : ClientWrite(b)
    \/ ClientCloseWrite
    \/ \E b \in Bytes : RemoteWrite(b)
    \/ RemoteCloseWrite
    \/ UpRead
    \/ UpWrite
    \/ DownRead
    \/ DownWrite
    \/ ForwardReturn
    \/ ForwardCloseLocal

SpecForward == InitForward /\ [][NextForward]_vars

(* Discovery results merged into the Model, one refresh after another.     *)

MaxFound == 4

NextDiscover == \E found \in SeqsOver(TenantPool, MaxFound) : DiscoverMsg(found)

SpecDiscover == Init /\ [][NextDiscover]_vars

(* The running program with IsAlive called at any moment.                  *)

NextAlive == RunNext \/ \E k \in Keys : IsAlive(k)

SpecAlive == Init /\ [][NextAlive]_vars

----------------------------------------------------------------------------
(* The accept loop and forward.                                            *)

\* C22: when client.Dial fails for an accepted local connection, the accept
\* loop closes that connection, closes the tunnel's listener and ends; a loop
\* that has ended stays ended, so the tunnel accepts no local connection
\* after a failed remote dial.
C22_FailedDialEndsLoop ==
    /\ [][\A c \in Conn :
            /\ (accepted[c] = "open" /\ accepted'[c] = "closed") =>
                   (listener'[c] = "closed" /\ loop'[c] = "exited")
            /\ (loop[c] = "dial" /\ loop'[c] = "exited") => accepted'[c] = "closed"
            /\ loop[c] = "exited" => (loop'[c] = "exited" /\ accepted'[c] = accepted[c])]_vars
    /\ [](\A c \in Conn :
            accepted[c] = "closed" => (loop[c] = "exited" /\ listener[c] = "closed"))

\* a remote dial has failed on a tunnel whose SSH connection is alive
C22_Witness ==
    \E c \in Conn :
        /\ accepted[c] = "closed"
        /\ loop[c] = "exited"
        /\ listener[c] = "closed"
        /\ client[c] = "open"

\* tunnel c's accept loop ends, or an io.Copy of its forward call ends, or
\* its forward call returns
ForwardingFails(c) ==
    \/ loop[c] # "exited" /\ loop'[c] = "exited"
    \/ /\ fowner = c
       /\ \/ toRemote.pc # "done" /\ toRemote'.pc = "done"
          \/ toLocal.pc # "done" /\ toLocal'.pc = "done"
          \/ fpc = "wait" /\ fpc' = "closing"
          \/ fpc = "closing" /\ fpc' = "returned"

\* C23: a step in which forwarding fails in one tunnel (its accept loop ends,
\* a copy of its relay ends, its relay returns) leaves the registry as it was
\* and every other tunnel's listener, accept loop, accepted connection and
\* SSH connection as they were.
C23_ForwardFailureIsLocal ==
    [][\A c \in Conn :
         ForwardingFails(c) =>
             /\ tunnels' = tunnels
             /\ \A d \in Conn \ {c} :
                    /\ listener'[d] = listener[d]
                    /\ loop'[d] = loop[d]
                    /\ client'[d] = client[d]
                    /\ accepted'[d] = accepted[d]]_vars

\* tunnel 1's relay has ended on a write error and its loop on a failed
\* dial, and tunnel 2 is registered, listening and connected
C23_Witness ==
    /\ fowner = 1
    /\ fpc = "returned"
    /\ toRemote.pc = "done"
    /\ toRemote.buf # <<>>
    /\ loop[1] = "exited"
    /\ tunnels[KeyB] = 2
    /\ listener[2] = "open"
    /\ loop[2] = "accept"
    /\ client[2] = "open"

\* C26: once a forward call on a live SSH connection is over, the remote
\* endpoint has received every byte the client wrote, in the order written,
\* and the client every byte the remote endpoint wrote.
C26_EveryByteDelivered ==
    (/\ fpc = "returned"
     /\ toRemote.pc = "done"
     /\ toLocal.pc = "done"
     /\ client[fowner] = "open") =>
        /\ toRemote.dst = toRemote.wrote
        /\ toLocal.dst = toLocal.wrote

----------------------------------------------------------------------------
(* Refreshes.                                                              *)

\* C27: after any sequence of discovery results merged into the Model, no
\* two entries of Model.entries have the same LocalPort.
C27_MergedPortsUnique ==
    \A i, j \in 1..Len(mEntries) :
        i # j => mEntries[i].LocalPort # mEntries[j].LocalPort

----------------------------------------------------------------------------
(* IsAlive.                                                                *)

\* C25: a call IsAlive(key) returns true exactly when the key is in the
\* registry at the moment of the call, whatever the state of the tunnel's
\* listener, accept loop and connection, and it changes nothing.
C25_IsAliveReadsRegistry ==
    [][\A k \in Keys :
         (aliveRet' # aliveRet /\ aliveRet'.key = k) =>
             /\ aliveRet'.ok = (tunnels[k] # 0)
             /\ UNCHANGED <<portVars, poolVars, mgrVars, fwdVars, mEntries, lockVars>>]_vars

\* IsAlive has returned true for a registered tunnel whose listener is
\* closed, whose accept loop has ended and whose connection has ended
C25_Witness ==
    \E k \in Keys :
        /\ aliveRet = [key |-> k, ok |-> TRUE]
        /\ tunnels[k] # 0
        /\ listener[tunnels[k]] = "closed"
        /\ loop[tunnels[k]] = "exited"
        /\ client[tunnels[k]] = "closed"

----------------------------------------------------------------------------
(* Health sweeps: the program left to itself, no key pressed.              *)

\* the Model with no command running and no tunnel registered, each entry
\* Ready, Connected (its tunnel lost) or Error
InitSweep ==
    /\ PortsIdle
    /\ PoolIdle
    /\ ExtIdle
    /\ tunnels = [k \in Keys |-> 0]
    /\ ckey = [c \in Conn |-> "none"]
    /\ cpc = [c \in Conn |-> "none"]
    /\ client = [c \in Conn |-> "none"]
    /\ listener = [c \in Conn |-> "none"]
    /\ loop = [c \in Conn |-> "none"]
    /\ mpc = [c \in Conn |-> "none"]
    /\ mtun = [c \in Conn |-> 0]
    /\ mgone = [c \in Conn |-> "unset"]
    /\ mdel = [c \in Conn |-> 0]
    /\ dpc = [d \in Disc |-> "none"]
    /\ dkey = [d \in Disc |-> "none"]
    /\ dtun = [d \in Disc |-> 0]
    /\ apc = "none"
    /\ asnap = {}
    /\ gpc = [c \in Conn |-> "none"]
    /\ status \in [Keys -> {"Ready", "Connected", "Error"}]
    /\ mode = "normal"
    /\ remover = [k \in Keys |-> "none"]
    /\ refsAt = [c \in Conn |-> 0]

NextSweep ==
    \/ HealthSweep
    \/ \E c \in Conn : DeliverConnected(c)
    \/ \E c \in Conn : DeliverConnectError(c)
    \/ \E c \in Conn : DeliverLost(c)
    \/ \E c \in Conn : ConnectDialOk(c)
    \/ \E c \in Conn : ConnectDialFail(c)
    \/ \E c \in Conn : ConnectResolveOk(c)
    \/ \E c \in Conn : ConnectResolveFail(c)
    \/ \E c \in Conn : ConnectListenOk(c)
    \/ \E c \in Conn : ConnectListenFail(c)
    \/ \E c \in Conn : ConnectRegister(c)
    \/ \E c \in Conn : AcceptLocal(c)
    \/ \E c \in Conn : AcceptClosed(c)
    \/ \E c \in Conn : RemoteDialOk(c)
    \/ \E c \in Conn : RemoteDialFail(c)
    \/ \E c \in Conn : ClientDies(c)
    \/ \E c \in Conn : MonitorStart(c)
    \/ \E c \in Conn : MonitorRecheck(c)
    \/ \E c \in Conn : MonitorCloseListener(c)
    \/ \E c \in Conn : MonitorWaitDone(c)

SpecSweep == InitSweep /\ [][NextSweep]_vars

\* Connect, its accept loop, MonitorTunnel, Disconnect and two Acquire calls
\* taking and giving back the two mutexes
NextLocks ==
    \/ LkConnect
    \/ LkLoop
    \/ LkMonitor
    \/ LkDisconnect
    \/ \E t \in AcquireTasks : LkAcquireCall(t)
    \/ \E t \in AcquireTasks : LkAcquireLock(t)
    \/ \E t \in AcquireTasks : LkAcquireCheck(t)
    \/ \E t \in AcquireTasks : LkAcquireDial(t)
    \/ \E t \in AcquireTasks : LkAcquireRelock(t)
    \/ \E t \in AcquireTasks : LkAcquirePublish(t)
    \/ \E t \in LockTasks : LkReturn(t)

SpecLocks == Init /\ [][NextLocks]_vars


\* the Connect commands a step issues for key k
Issued(k) == {c \in Conn : cpc[c] = "none" /\ cpc'[c] = "dial" /\ ckey'[c] = k}

\* C24: with no key pressed, a step that issues Connect commands (a health
\* sweep) issues one for every entry that is Connected and whose key is not
\* in the registry, one each, and for no other entry; the other entries keep
\* their status; so an entry in Error after a failed reconnect gets no
\* further Connect.
C24_SweepReconnectsDeadConnected ==
    [][(\E j \in Keys : Issued(j) # {}) =>
          \A k \in Keys :
              IF status[k] = "Connected" /\ tunnels[k] = 0
              THEN Cardinality(Issued(k)) = 1 /\ status'[k] = "Connecting"
              ELSE Issued(k) = {} /\ status'[k] = status[k]]_vars

\* a sweep's reconnect of an entry has failed and left it in Error, and a
\* Connect command is still free for a sweep to issue
C24_Witness ==
    \E k \in Keys, c \in Conn :
        /\ status[k] = "Error"
        /\ ckey[c] = k
        /\ cpc[c] = "errSeen"
        /\ FreeConns # {}

----------------------------------------------------------------------------
(* The probe of AssignPorts.                                               *)

\* the port after p in the cyclic order of the range
CyclicNext(p) == IF p >= portRangeMax THEN portRangeMin ELSE p + 1

RECURSIVE FirstFree(_, _)
\* the first port from p on, in that cyclic order, that u does not hold
FirstFree(p, u) == IF p \in u THEN FirstFree(CyclicNext(p), u) ELSE p

\* C34: each iteration of AssignPorts gives its entry the first port that is
\* not yet used, going forward from the entry's hashPort and from 65535 on
\* to 10000.
C34_ProbeWrapsToRangeMin ==
    [][(ppc = "assign" /\ pidx' = pidx + 1) =>
          entries'[pidx].LocalPort
            = FirstFree(hashPort(entries[pidx].Host, entries[pidx].Tenant), used)]_vars

----------------------------------------------------------------------------
(* forward's return.                                                       *)

\* the forward goroutine is scheduled until it has returned
ForwardFairness == WF_vars(ForwardReturn) /\ WF_vars(ForwardCloseLocal)

FairForward == InitForward /\ [][NextForward]_vars /\ ForwardFairness

\* C33: when forward closes the remote or the local connection of a client,
\* both of its io.Copy tasks have ended.
C33_CopiesEndBeforeClose ==
    fpc \in {"closing", "returned"} =>
        (toRemote.pc = "done" /\ toLocal.pc = "done")

\* C40: once either io.Copy of a relay has ended, forward goes on to close
\* the remote and the local connection of that client: after it has closed
\* the remote one its only further step closes the local one, and when it
\* has returned neither is open.
C40_BothClosedTogether ==
    /\ ((toRemote.pc = "done" \/ toLocal.pc = "done") ~> (fpc = "returned"))
    /\ [][fpc = "closing" => fpc' \in {"closing", "returned"}]_vars
    /\ [](fpc = "returned" => (~LocalOpen /\ ~RemoteOpen))

\* one direction of a relay has ended by EOF while the other was still
\* copying, and forward has closed both connections
C40_Witness ==
    /\ fpc = "returned"
    /\ client[fowner] = "open"
    /\ toLocal.pc = "done"
    /\ toLocal.eof
    /\ toRemote.pc = "read"

----------------------------------------------------------------------------
(* Tunnels whose accept loop has ended.                                    *)

\* C32: under fair scheduling a registered tunnel whose accept loop has ended
\* is eventually removed from the registry.
C32_EndedTunnelLeavesRegistry ==
    \A c \in Conn :
        (Registered(c) /\ loop[c] = "exited") ~> ~Registered(c)

----------------------------------------------------------------------------
(* DisconnectAll and the Connect commands in flight.                       *)

\* C31: once DisconnectAll has returned, the registry is empty and no
\* tunnel's listener or connection is open.
C31_NothingOpenAfterDisconnectAll ==
    apc = "returned" =>
        /\ \A k \in Keys : tunnels[k] = 0
        /\ \A c \in Conn : listener[c] # "open" /\ client[c] # "open"

----------------------------------------------------------------------------
(* Status and registry at rest.                                            *)

\* no Connect or Disconnect command is running and every tunnel message has
\* been handled by Update
Quiescent ==
    /\ \A c \in Conn : cpc[c] \in {"none", "okSeen", "errSeen"}
    /\ \A d \in Disc : dpc[d] \in {"none", "retSeen"}
    /\ \A c \in Conn : mpc[c] # "lost"

\* C38: in a quiescent state an entry whose status is Ready has no tunnel
\* registered under its key.
C38_ReadyMeansUnregistered ==
    Quiescent => \A k \in Keys : status[k] = "Ready" => tunnels[k] = 0

----------------------------------------------------------------------------
(* Monitors.                                                               *)

TornDownByDisconnect(t) == Cardinality({d \in Disc : dtun[d] = t /\ dpc[d] # "none"})

\* the number of MonitorTunnel calls that tear the Tunnel t down: past the
\* re-check, on the path that closes tun.listener and waits for tun.done
TornDownByMonitor(t) == Cardinality({c \in Conn : mtun[c] = t /\ MonitorReports(c)})

\* 1 when DisconnectAll took the Tunnel t in its snapshot and closes it
TornDownByAll(t) == IF t \in asnap THEN 1 ELSE 0

\* C35: each registered Tunnel is torn down exactly once: of Disconnect,
\* MonitorTunnel and DisconnectAll racing on its key, at most one finds it
\* in the registry and performs the teardown (closing it and waiting for its
\* done); the others perform no teardown of it.
C35_TornDownOnce ==
    \A t \in Conn :
        TornDownByDisconnect(t) + TornDownByMonitor(t) + TornDownByAll(t) <= 1

\* C37: the dead signal of a connection created by Acquire fires only after
\* the connection has terminated and never while it is alive; it fires once
\* and stays fired, so every waiter on it, however many there are, observes
\* it; and the signal Dead hands out for a pooled host is that connection's.
C37_DeadFiresOnceAfterEnd ==
    /\ [](\A id \in Clients : deadCh[id] => cstate[id] = "closed")
    /\ [][\A id \in Clients : deadCh[id] => deadCh'[id]]_vars
    /\ [][(deadRet' # deadRet /\ deadRet'.ch # 0)
            => deadRet'.fired = deadCh[deadRet'.ch]]_vars

\* the connection two callers hold has terminated and its signal has fired,
\* Dead has handed the fired signal out, and another connection is alive with
\* its signal not fired
C37_Witness ==
    \E id, other \in Clients :
        /\ cstate[id] = "closed"
        /\ deadCh[id]
        /\ Cardinality({c \in Callers : qpc[c] = "holding" /\ qclient[c] = id}) >= 2
        /\ deadRet.ch = id
        /\ deadRet.fired
        /\ cstate[other] = "open"
        /\ ~deadCh[other]

\* the task is blocked in a dial, an accept, a remote command execution or a
\* local port bind
Blocked(t) == tpc[t] \in {"dialSSH", "resolve", "listen", "accept", "dial"}

\* the task holds the registry lock or the pool lock
HoldsLock(t) == mu = t \/ pmu = t

\* C36: no task holds the registry lock (TunnelManager.mu) or the pool lock
\* (sshPool.mu) while it is blocked in a dial, an accept, a remote command
\* execution or a port bind: a lock is held only in the critical sections
\* that read, insert into or remove from the map.
C36_NoLockAcrossBlockingCall ==
    \A t \in LockTasks :
        HoldsLock(t) =>
            /\ ~Blocked(t)
            /\ tpc[t] \in {"store", "lookup", "recheck", "remove", "check", "publish"}

\* MonitorTunnel holds the registry lock in its re-check while Connect waits
\* for it at line 95, an Acquire holds the pool lock while publishing, the
\* other Acquire is blocked in its dial and the accept loop in Accept
C36_Witness ==
    /\ mu = "MonitorTunnel"
    /\ tpc["MonitorTunnel"] = "recheck"
    /\ tpc["Connect"] = "lock95"
    /\ tpc["loop"] = "accept"
    /\ \E t, u \in AcquireTasks :
        /\ pmu = t
        /\ tpc[t] = "publish"
        /\ tpc[u] = "dialSSH"

====
